---- MODULE Spec2Model ----
(***************************************************************************)
(* Kuboid backend: ingestion pipeline, processing ledger, vector store,    *)
(* widget tokens and retrieval (backend/RAG/docs.py).                      *)
(*                                                                         *)
(* Strings are sequences of one-character strings, so that replace, strip, *)
(* split and startswith are computed and not assumed.  Python's None is    *)
(* NoneVal; a dictionary key that is absent reads as NoneVal, as .get()    *)
(* does.                                                                   *)
(*                                                                         *)
(* Backend calls that the code wraps in try/except (ledger upsert, ledger  *)
(* select, Qdrant scroll and upsert, storage download) succeed or raise;   *)
(* the outcome is an input of the action.                                  *)
(*                                                                         *)
(* The handlers run on one event loop.  The Supabase and Qdrant clients    *)
(* are synchronous, so a handler is suspended only at the awaits of the    *)
(* embedding service, the completion service and asyncio.sleep: an action  *)
(* is the code between two such suspensions.                               *)
(***************************************************************************)
EXTENDS Integers, Sequences, FiniteSets, Bags, TLC

VARIABLES
    ledger,         \* document_processing_status table: document_id -> row
    store,          \* the Qdrant collection: a bag of point payloads (the ids are fresh uuids)
    run,            \* process_document_by_path calls in flight, per caller
    ret,            \* what process_document_by_path returned in the step just taken, if it did
    batch,          \* the process_all_documents call in flight
    batchRet,       \* what process_all_documents returned in the step just taken, if it did
    batchSucceeded, \* paths some finished batch run ingested with 'success'
    batches,        \* batch runs begun so far
    widgets,        \* widgets table: widget id -> row (NoWidget once deleted), for the ids generated so far
    tokens,         \* widget tokens minted so far (signed with EMBED_SECRET)
    now,            \* the clock, in seconds
    lastToken,      \* a create_widget_token request and its response, while the response is on its way
    lastChat,       \* a widget_chat request and its response, while the response is on its way
    chatTurns,      \* chat_turns table, a bag of rows
    lastRetrieve,   \* the retrieve call of the step just taken and its result, if there was one
    lastAnswer,     \* the generate_answer call of the step just taken and its result, if there was one
    clusterInput,   \* the questions, counts and embeddings the clustering calls are given
    clusterRuns,    \* what the _cluster_using_embeddings calls on clusterInput returned, in order
    lastCluster,    \* the _cluster_questions_with_llm call of the step just taken and its result, if there was one
    gaps,           \* knowledge_gaps table: the rows in order of insertion (the position is the id)
    commonIssues,   \* analytics_common_issues table: a set of rows
    refreshes,      \* runs of refresh_most_asked_questions so far (the clock of captured_at)
    gapActions,     \* requests to update_knowledge_gap so far
    lastAnalytics   \* the analytics call of the step just taken and its result, if there was one

ingestVars == <<ledger, store, run, ret, batch, batchRet, batchSucceeded, batches>>
authVars == <<widgets, tokens, now, lastToken, lastChat, chatTurns>>
queryVars == <<lastRetrieve, lastAnswer>>
analyticsVars == <<clusterInput, clusterRuns, lastCluster, gaps, commonIssues, refreshes,
                   gapActions, lastAnalytics>>
vars == <<ledger, store, run, ret, batch, batchRet, batchSucceeded, batches,
          widgets, tokens, now, lastToken, lastChat, chatTurns,
          lastRetrieve, lastAnswer,
          clusterInput, clusterRuns, lastCluster, gaps, commonIssues, refreshes,
          gapActions, lastAnalytics>>

----------------------------------------------------------------------------
(* Bounds *)

\* the most chunks the splitter makes of one document
MaxChunks == 2
\* the most points the collection holds
MaxPoints == 3
\* the most batch runs
MaxBatches == 2
\* points in the collection when the retrieval calls are explored on their own
MaxStored == 2
\* tokens are minted while the clock is at most this
MaxIssueTime == 0
\* the most tokens minted
MaxTokens == 1
\* the most rows of chat_turns
MaxTurns == 1
\* the most distinct questions given to a clustering call
MaxQuestions == 2
\* the most _cluster_using_embeddings calls on one input
MaxClusterRuns == 2
\* the most rows of knowledge_gaps
MaxGaps == 2
\* the most entries of a linked_sources list
MaxLinked == 2
\* the most runs of refresh_most_asked_questions
MaxRefreshes == 2

\* rows of chat_turns and page sizes of _iter_chat_turns
MaxRows == 4
MaxPageSize == 3
\* the most requests to update_knowledge_gap
MaxGapActions == 2

----------------------------------------------------------------------------
(* Values *)

NoneVal == <<"None">>

Truthy(x) == x # NoneVal /\ x # <<>>

\* str(x)
Str(x) == IF x = NoneVal THEN <<"N", "o", "n", "e">> ELSE x

Min(a, b) == IF a <= b THEN a ELSE b

OwnerA == <<"A">>
OwnerB == <<"B">>
Owners == {OwnerA, OwnerB}

\* objects of the storage bucket "Docs"
\* two files of owner A's folder, and a file at the top of the bucket
PathA1 == <<"A", "/", "d">>
PathA2 == <<"A", "/", "e">>
PathR == <<"A", "-", "d">>
Bucket == {PathA1, PathA2, PathR}

\* stands for the file name ".emptyFolderPlaceholder"
Placeholder == <<".", "e">>

\* everything in the bucket: the documents, and the placeholder of the
\* empty folder B
Objects == Bucket \cup {<<"B", "/">> \o Placeholder}

----------------------------------------------------------------------------
(* String functions *)

\* s.replace(from, to) for one-character from and to
Replace(s, from, to) == [i \in 1..Len(s) |-> IF s[i] = from THEN to ELSE s[i]]

StartsWith(s, p) == Len(p) <= Len(s) /\ SubSeq(s, 1, Len(p)) = p

EndsWith(s, p) == Len(p) <= Len(s) /\ SubSeq(s, Len(s) - Len(p) + 1, Len(s)) = p

HasSlash(s) == \E i \in 1..Len(s) : s[i] = "/"

FirstSlash(s) == CHOOSE i \in 1..Len(s) : s[i] = "/" /\ \A j \in 1..(i - 1) : s[j] # "/"

\* s.rstrip("/")
RStripSlash(s) ==
    LET keep == {i \in 1..Len(s) : s[i] # "/"}
        last == IF keep = {} THEN 0 ELSE CHOOSE i \in keep : \A j \in keep : j <= i
    IN  SubSeq(s, 1, last)

\* s.lstrip("/")
LStripSlash(s) ==
    LET keep == {i \in 1..Len(s) : s[i] # "/"}
        first == IF keep = {} THEN Len(s) + 1 ELSE CHOOSE i \in keep : \A j \in keep : i <= j
    IN  SubSeq(s, first, Len(s))

IsSpace(c) == c \in {" ", "\t", "\n"}

\* s.strip()
Strip(s) ==
    LET keep == {i \in 1..Len(s) : ~IsSpace(s[i])}
        first == IF keep = {} THEN 1 ELSE CHOOSE i \in keep : \A j \in keep : i <= j
        last == IF keep = {} THEN 0 ELSE CHOOSE i \in keep : \A j \in keep : j <= i
    IN  SubSeq(s, first, last)

----------------------------------------------------------------------------
(* Documents, ledger and vector store *)

\* file_path.replace("/", "_").replace("-", "_")
DocumentId(file_path) == Replace(Replace(file_path, "/", "_"), "-", "_")

\* the ids a ledger row can have: those of the paths a listing of the bucket
\* can give, the folders included
DocIds == {DocumentId(p) : p \in Objects \cup Owners}

NoRow == [status |-> "absent", chunks_count |-> 0]

\* _update_processing_status: upsert of the row by id; a failure is logged
\* and swallowed
UpdateProcessingStatus(led, document_id, status, chunks_count, writeOk) ==
    IF writeOk
    THEN [led EXCEPT ![document_id] = [status |-> status, chunks_count |-> chunks_count]]
    ELSE led

\* metadata["user_id"] as process_document_by_path derives it from the path
PathUserId(file_path) ==
    IF HasSlash(file_path)
    THEN LET possible_user == SubSeq(file_path, 1, FirstSlash(file_path) - 1)
         IN  IF possible_user # <<>> /\ possible_user[1] # "."
             THEN possible_user
             ELSE NoneVal
    ELSE NoneVal

\* the metadata process_document_by_path creates for a file
FileMetadata(file_path) ==
    [file_path |-> file_path, user_id |-> PathUserId(file_path),
     widget_id |-> NoneVal, chunk_count |-> 0]

\* chunk_text without the loop that sets chunk_count
ChunkTextNoCount(n, metadata) ==
    [i \in 1..n |-> ("text" :> i) @@ metadata]

\* chunk_text followed by the loop that sets chunk_count on every chunk:
\* n chunks, each with a copy of the metadata; the page_content of a chunk
\* is the number of its piece of the text
ChunkText(n, metadata) ==
    [i \in 1..n |-> ("text" :> i) @@ [metadata EXCEPT !.chunk_count = n]]

\* the payload store_in_qdrant builds for chunk number i (from 0)
PointPayload(chunk, i, document_id) ==
    [text |-> chunk.text,
     document_id |-> document_id,
     chunk_index |-> i,
     owner_id |-> IF Truthy(chunk.user_id) THEN chunk.user_id ELSE NoneVal,
     widget_id |-> IF Truthy(chunk.widget_id) THEN chunk.widget_id ELSE NoneVal,
     chunk_count |-> chunk.chunk_count]

\* store_in_qdrant with point ids made of the document_id and the chunk
\* index: the upsert replaces the points of the document with these indices
StoreInQdrantByIndex(st, chunks, nEmbeddings, document_id, upsertOk) ==
    IF Len(chunks) = 0 \/ nEmbeddings = 0
    THEN st
    ELSE LET count == Min(Len(chunks), nEmbeddings)
             points == {PointPayload(chunks[i], i - 1, document_id) : i \in 1..count}
             kept == {q \in DOMAIN st : ~(q.document_id = document_id /\ q.chunk_index < count)}
         IN  IF upsertOk THEN [q \in kept |-> st[q]] (+) SetToBag(points) ELSE st

\* store_in_qdrant: one point per (chunk, embedding) pair, upserted under
\* fresh uuid4 ids, so the points are added to what is there; a failed
\* upsert is logged and swallowed
StoreInQdrant(st, chunks, nEmbeddings, document_id, upsertOk) ==
    IF Len(chunks) = 0 \/ nEmbeddings = 0
    THEN st
    ELSE LET points == {PointPayload(chunks[i], i - 1, document_id) :
                            i \in 1..Min(Len(chunks), nEmbeddings)}
         IN  IF upsertOk THEN st (+) SetToBag(points) ELSE st

\* the points of a document, as a bag
PointsOf(st, document_id) ==
    [p \in {q \in DOMAIN st : q.document_id = document_id} |-> st[p]]

\* is_document_processed that takes a failed Qdrant probe for a document
\* that is there
IsDocumentProcessedOrUnknown(file_path, lookupOk, probeOk) ==
    LET document_id == DocumentId(file_path)
    IN  IF lookupOk /\ ledger[document_id].status = "processed"
        THEN TRUE
        ELSE IF probeOk THEN BagCardinality(PointsOf(store, document_id)) > 0 ELSE TRUE

\* is_document_processed
IsDocumentProcessed(file_path, lookupOk, probeOk) ==
    LET document_id == DocumentId(file_path)
    IN  IF lookupOk /\ ledger[document_id].status = "processed"
        THEN TRUE
        ELSE IF probeOk THEN BagCardinality(PointsOf(store, document_id)) > 0 ELSE FALSE

\* the Qdrant scroll calls is_document_processed makes: none if the ledger
\* row it read says 'processed', one otherwise
IsDocumentProcessedProbes(file_path, lookupOk) ==
    IF lookupOk /\ ledger[DocumentId(file_path)].status = "processed" THEN 0 ELSE 1

----------------------------------------------------------------------------
(* process_document_by_path *)

\* PdpBegin of a run that gives up when its 'processing' mark is not written
PdpBeginMarkRequired(led, caller, file_path, lw, fail, lwE) ==
    LET document_id == DocumentId(file_path)
        led1 == UpdateProcessingStatus(led, document_id, "processing", 0, lw)
        led2 == UpdateProcessingStatus(led1, document_id, "error", 0, lwE)
    IN  IF fail = "none" /\ lw
        THEN [failed |-> FALSE, ledger |-> led1, ret |-> [status |-> "running"]]
        ELSE [failed |-> TRUE, ledger |-> led2,
              ret |-> [status |-> "error", caller |-> caller, file_path |-> file_path,
                       document_id |-> document_id,
                       chunks_created |-> 0, cause |-> IF lw THEN fail ELSE "mark", wrote |-> 0,
                       ledgerOk |-> lwE]]

\* the code of process_document_by_path up to its await of the embedding
\* service: the best-effort 'processing' mark, the download, the extraction
\* and the chunking; a failure goes to the except block, which marks the
\* ledger 'error' and returns
\*   lw: the 'processing' write succeeds
\*   fail: the first step that fails: "download" (nothing downloaded, or the
\*         download raised), "extract" (the text is empty or blank),
\*         "chunk" (the splitter raised), or "none"
\*   lwE: the 'error' write succeeds
PdpBegin(led, caller, file_path, lw, fail, lwE) ==
    LET document_id == DocumentId(file_path)
        led1 == UpdateProcessingStatus(led, document_id, "processing", 0, lw)
        led2 == UpdateProcessingStatus(led1, document_id, "error", 0, lwE)
    IN  IF fail = "none"
        THEN [failed |-> FALSE, ledger |-> led1, ret |-> [status |-> "running"]]
        ELSE [failed |-> TRUE, ledger |-> led2,
              ret |-> [status |-> "error", caller |-> caller, file_path |-> file_path,
                       document_id |-> document_id,
                       chunks_created |-> 0, cause |-> fail, wrote |-> 0,
                       ledgerOk |-> lwE]]

\* PdpEnd of a run whose except block does not mark the ledger
PdpEndNoErrorMark(led, st, caller, file_path, n, em, up, lwEnd) ==
    LET document_id == DocumentId(file_path)
        chunks == ChunkText(n, FileMetadata(file_path))
        st1 == StoreInQdrant(st, chunks, n, document_id, up)
        ledP == UpdateProcessingStatus(led, document_id, "processed", Len(chunks), lwEnd)
    IN  [ledger |-> IF em = "ok" THEN ledP ELSE led,
         store |-> IF em = "ok" THEN st1 ELSE st,
         ret |-> [status |-> IF em = "ok" THEN "success" ELSE "error",
                  caller |-> caller, file_path |-> file_path,
                  document_id |-> document_id,
                  chunks_created |-> IF em = "ok" THEN Len(chunks) ELSE 0,
                  cause |-> IF em = "ok" THEN "none" ELSE "embed",
                  wrote |-> IF em = "ok" THEN BagCardinality(st1) - BagCardinality(st) ELSE 0,
                  ledgerOk |-> lwEnd]]

\* PdpEnd with the upsert made before the embeddings are awaited, so that a
\* run whose embedding call raises has already written its chunks
PdpEndStoresFirst(led, st, caller, file_path, n, em, up, lwEnd) ==
    LET document_id == DocumentId(file_path)
        chunks == ChunkText(n, FileMetadata(file_path))
        st1 == StoreInQdrant(st, chunks, n, document_id, up)
        ledP == UpdateProcessingStatus(led, document_id, "processed", Len(chunks), lwEnd)
        ledE == UpdateProcessingStatus(led, document_id, "error", 0, lwEnd)
    IN  [ledger |-> IF em = "ok" THEN ledP ELSE ledE, store |-> st1,
         ret |-> [status |-> IF em = "ok" THEN "success" ELSE "error",
                  caller |-> caller, file_path |-> file_path,
                  document_id |-> document_id,
                  chunks_created |-> IF em = "ok" THEN Len(chunks) ELSE 0,
                  cause |-> IF em = "ok" THEN "none" ELSE "embed",
                  wrote |-> BagCardinality(st1) - BagCardinality(st),
                  ledgerOk |-> lwEnd]]

\* the code of process_document_by_path after the embedding service answered
\* (em = "ok") or raised (em = "raise"): store_in_qdrant, the 'processed'
\* mark and the success result, or the except block
\*   up: the Qdrant upsert succeeds   lwEnd: the last ledger write succeeds
PdpEnd(led, st, caller, file_path, n, em, up, lwEnd) ==
    LET document_id == DocumentId(file_path)
        chunks == ChunkText(n, FileMetadata(file_path))
        st1 == StoreInQdrant(st, chunks, n, document_id, up)
        ledP == UpdateProcessingStatus(led, document_id, "processed", Len(chunks), lwEnd)
        ledE == UpdateProcessingStatus(led, document_id, "error", 0, lwEnd)
    IN  IF em = "ok"
        THEN [ledger |-> ledP, store |-> st1,
              ret |-> [status |-> "success", caller |-> caller, file_path |-> file_path,
                       document_id |-> document_id,
                       chunks_created |-> Len(chunks), cause |-> "none",
                       wrote |-> BagCardinality(st1) - BagCardinality(st),
                       ledgerOk |-> lwEnd]]
        ELSE [ledger |-> ledE, store |-> st,
              ret |-> [status |-> "error", caller |-> caller, file_path |-> file_path,
                       document_id |-> document_id,
                       chunks_created |-> 0, cause |-> "embed", wrote |-> 0,
                       ledgerOk |-> lwEnd]]

Callers == {"manual", "webhook"}

IdleRun == [pc |-> "idle", path |-> <<>>, n |-> 0]

NoRet == [status |-> "none"]

IdleBatch == [pc |-> "idle"]

Failures == {"download", "extract", "chunk"}

\* points that the runs waiting for their embeddings are about to write
Reserved ==
    LET r(c) == IF run[c].pc = "embedding" THEN run[c].n ELSE 0
    IN  r("manual") + r("webhook") + (IF batch.pc = "embedding" THEN batch.n ELSE 0)

Room(n) == BagCardinality(store) + Reserved + n <= MaxPoints

\* a caller's process_document_by_path runs up to the embedding await
\* (history, kept with a waiting run: had, the chunks its document_id held
\* when the run began; peer, the chunks runs for the same path have stored
\* since)
RunBegin(c, file_path) ==
    \E lw \in BOOLEAN :
        \/ \E fail \in Failures, lwE \in BOOLEAN :
            LET b == PdpBegin(ledger, c, file_path, lw, fail, lwE)
            IN  /\ ledger' = b.ledger
                /\ run' = [run EXCEPT ![c] = IdleRun]
                /\ ret' = b.ret
        \/ \E n \in 1..MaxChunks :
            LET b == PdpBegin(ledger, c, file_path, lw, "none", TRUE)
            IN  /\ Room(n)
                /\ ledger' = b.ledger
                /\ run' = [run EXCEPT ![c] =
                              [pc |-> "embedding", path |-> file_path, n |-> n,
                               had |-> BagCardinality(PointsOf(store, DocumentId(file_path))),
                               peer |-> 0]]
                /\ ret' = NoRet

\* POST /process-specific, and the background task of POST /process-document
ManualStart(file_path) ==
    /\ run["manual"].pc = "idle"
    /\ RunBegin("manual", file_path)
    /\ batchRet' = NoRet
    /\ UNCHANGED <<store, batch, batchSucceeded, batches>>
    /\ UNCHANGED <<authVars, queryVars, analyticsVars>>

\* POST /webhook/storage with an INSERT event: the processed check, then
\* create_task(process_document_by_path), which starts later
\* (history, kept with the scheduled run: had, the chunks the document_id
\* held when the check was made)
WebhookInsert(file_path) ==
    /\ run["webhook"].pc = "idle"
    /\ \E lookupOk \in BOOLEAN, probeOk \in BOOLEAN :
        /\ ~IsDocumentProcessed(file_path, lookupOk, probeOk)
        /\ run' = [run EXCEPT !["webhook"] =
                      [pc |-> "scheduled", path |-> file_path, n |-> 0,
                       had |-> BagCardinality(PointsOf(store, DocumentId(file_path)))]]
    /\ ret' = NoRet
    /\ batchRet' = NoRet
    /\ UNCHANGED <<ledger, store, batch, batchSucceeded, batches>>
    /\ UNCHANGED <<authVars, queryVars, analyticsVars>>

\* the task the webhook created starts
WebhookTaskStart ==
    /\ run["webhook"].pc = "scheduled"
    /\ RunBegin("webhook", run["webhook"].path)
    /\ batchRet' = NoRet
    /\ UNCHANGED <<store, batch, batchSucceeded, batches>>
    /\ UNCHANGED <<authVars, queryVars, analyticsVars>>

\* the embedding service answers a waiting run, or raises
RunEmbedReturn(c) ==
    /\ run[c].pc = "embedding"
    /\ \E em \in {"ok", "raise"}, up \in BOOLEAN, lwEnd \in BOOLEAN :
        LET e == PdpEnd(ledger, store, c, run[c].path, run[c].n, em, up, lwEnd)
        IN  /\ em = "raise" => up
            /\ ledger' = e.ledger
            /\ store' = e.store
            /\ ret' = e.ret @@ [had |-> run[c].had, peer |-> run[c].peer]
            /\ run' = [o \in Callers |->
                          IF o = c THEN IdleRun
                          ELSE IF run[o].pc = "embedding" /\ run[o].path = run[c].path
                               THEN [run[o] EXCEPT !.peer = @ + e.ret.wrote]
                               ELSE run[o]]
    /\ batchRet' = NoRet
    /\ UNCHANGED <<batch, batchSucceeded, batches>>
    /\ UNCHANGED <<authVars, queryVars, analyticsVars>>

----------------------------------------------------------------------------
(* process_all_documents *)

SeqOf(S) == CHOOSE s \in [1..Cardinality(S) -> S] : \A x \in S : \E i \in 1..Cardinality(S) : s[i] = x

\* storage.from_("Docs").list(list_path): the entries directly under the
\* path; a file has an id, a folder has none
ListEntries(list_path) ==
    LET pre == IF list_path = <<>> THEN <<>> ELSE list_path \o <<"/">>
        under == {o \in Objects : StartsWith(o, pre) /\ Len(o) > Len(pre)}
        rest(o) == SubSeq(o, Len(pre) + 1, Len(o))
        entry(o) == IF HasSlash(rest(o))
                    THEN [name |-> SubSeq(rest(o), 1, FirstSlash(rest(o)) - 1), id |-> NoneVal]
                    ELSE [name |-> rest(o), id |-> <<"i">>]
    IN  SeqOf({entry(o) : o \in under})

\* the entries process_all_documents keeps
IsFileItem(f) == Truthy(f.id) /\ ~EndsWith(f.name, Placeholder)

\* FileItems without its filter
FileItemsUnfiltered(all_files) == all_files

FileItems(all_files) == SelectSeq(all_files, IsFileItem)

\* the full path process_all_documents builds from an entry's name
FilePath(list_path, raw_name) ==
    IF Truthy(list_path)
    THEN IF StartsWith(raw_name, list_path \o <<"/">>) \/ raw_name = list_path
         THEN raw_name
         ELSE RStripSlash(list_path) \o <<"/">> \o LStripSlash(raw_name)
    ELSE raw_name

\* the paths a batch over list_path goes through, in order
BatchItems(list_path) ==
    LET file_items == FileItems(ListEntries(list_path))
    IN  [i \in 1..Len(file_items) |-> FilePath(list_path, file_items[i].name)]

\* ResultEntry of a loop that reports every document as skipped
ResultEntrySkipped(file_path, status, wrote) ==
    [file_path |-> file_path, status |-> "skipped", wrote |-> wrote]

CountStatus(results, status) == Cardinality({i \in DOMAIN results : results[i].status = status})

ResultEntry(file_path, status, wrote) == [file_path |-> file_path, status |-> status, wrote |-> wrote]

\* history, kept with the entry of a skipped document in the results: the
\* ledger row and the number of stored chunks of its document_id when the
\* loop reached it (the entries of the other documents keep none)
Reached(file_path, led, st) ==
    [row |-> led[DocumentId(file_path)],
     had |-> BagCardinality(PointsOf(st, DocumentId(file_path)))]

NotReached == [row |-> NoRow, had |-> 0]

\* the result process_all_documents returns after its loop
BatchResult(b, results, skipped) ==
    [status |-> "completed",
     total_files |-> Len(results),
     successful |-> CountStatus(results, "success"),
     failed |-> CountStatus(results, "error"),
     skipped |-> skipped,
     results |-> results,
     force |-> b.force, list_path |-> b.list_path, prior |-> batchSucceeded]

\* what is_document_processed may answer for a path: with its ledger lookup
\* and its Qdrant probe each succeeding or raising
CheckAnswers(file_path) ==
    {IsDocumentProcessed(file_path, lookupOk, probeOk) : lookupOk \in BOOLEAN, probeOk \in BOOLEAN}

\* NextToIngest of a loop that ingests no further file once a document's
\* result is 'error'
NextToIngestUntilError(b, chk) ==
    LET isSkipped(j) == ~b.force /\ chk[j]
        todo == {j \in b.idx..Len(b.items) : ~isSkipped(j)}
    IN  IF todo = {} \/ \E i \in DOMAIN b.results : b.results[i].status = "error"
        THEN Len(b.items) + 1
        ELSE CHOOSE j \in todo : \A k \in todo : j <= k

\* the entries from b.idx on that the loop skips before it reaches an entry
\* to ingest, or the end of the list
\*   chk[j]: the answer of is_document_processed for entry j
NextToIngest(b, chk) ==
    LET isSkipped(j) == ~b.force /\ chk[j]
        todo == {j \in b.idx..Len(b.items) : ~isSkipped(j)}
    IN  IF todo = {} THEN Len(b.items) + 1 ELSE CHOOSE j \in todo : \A k \in todo : j <= k

\* the loop of process_all_documents from entry b.idx on, up to its next
\* suspension: the entries found processed are skipped (unless
\* force_reprocess); the first other entry is handed to
\* process_document_by_path, which either fails before its embedding call
\* (then the loop sleeps) or waits for its embeddings; after the last entry
\* the batch returns
BatchAdvance(b) ==
    \E chk \in [b.idx..Len(b.items) -> BOOLEAN] :
    LET items == b.items
        nxt == NextToIngest(b, chk)
        skips == [k \in 1..(nxt - b.idx) |->
                     ResultEntry(items[b.idx + k - 1], "skipped", 0)
                         @@ Reached(items[b.idx + k - 1], ledger, store)]
        results == b.results \o skips
        skipped == b.skipped + Len(skips)
    IN  \* the check is made for the entries the loop reaches, and not at all
        \* under force_reprocess
        /\ \A j \in b.idx..Len(items) :
             IF j <= nxt /\ ~b.force THEN chk[j] \in CheckAnswers(items[j]) ELSE ~chk[j]
        /\ IF nxt > Len(items)
           THEN /\ batchRet' = BatchResult(b, results, skipped)
                /\ batch' = IdleBatch
                /\ batchSucceeded' = batchSucceeded \cup
                    {results[i].file_path : i \in {k \in DOMAIN results : results[k].status = "success"}}
                /\ ret' = NoRet
                /\ UNCHANGED ledger
           ELSE \E lw \in BOOLEAN :
                \/ \E fail \in Failures, lwE \in BOOLEAN :
                    LET g == PdpBegin(ledger, "batch", items[nxt], lw, fail, lwE)
                    IN  /\ ledger' = g.ledger
                        /\ ret' = g.ret
                        /\ batch' = [b EXCEPT !.pc = "sleep", !.idx = nxt + 1,
                                      !.results = results \o
                                          <<ResultEntry(items[nxt], g.ret.status, g.ret.wrote)
                                                @@ NotReached>>,
                                      !.skipped = skipped]
                        /\ batchRet' = NoRet
                        /\ UNCHANGED batchSucceeded
                \/ \E n \in 1..MaxChunks :
                    LET g == PdpBegin(ledger, "batch", items[nxt], lw, "none", TRUE)
                    IN  /\ Room(n)
                        /\ ledger' = g.ledger
                        /\ batch' = [b EXCEPT !.pc = "embedding", !.idx = nxt, !.n = n,
                                      !.results = results, !.skipped = skipped]
                        /\ ret' = NoRet
                        /\ batchRet' = NoRet
                        /\ UNCHANGED batchSucceeded

\* POST /process-all (user_id None, force_reprocess false or true) and
\* POST /process-new-only (the caller's user_id, force_reprocess false)
BatchBegin ==
    /\ batch.pc = "idle"
    /\ batches < MaxBatches
    /\ batches' = batches + 1
    /\ \E force \in BOOLEAN, user_id \in {NoneVal, OwnerA, OwnerB}, listOk \in BOOLEAN :
        /\ force => user_id = NoneVal
        /\ LET list_path == IF Truthy(user_id) THEN user_id ELSE <<>>
               b == [pc |-> "loop", force |-> force, list_path |-> list_path,
                     items |-> BatchItems(list_path),
                     idx |-> 1, n |-> 0, results |-> <<>>, skipped |-> 0]
           IN  IF listOk
               THEN BatchAdvance(b)
               ELSE /\ batchRet' = [status |-> "error"]
                    /\ ret' = NoRet
                    /\ UNCHANGED <<ledger, batch, batchSucceeded>>
    /\ UNCHANGED <<store, run>>
    /\ UNCHANGED <<authVars, queryVars, analyticsVars>>

\* the embedding service answers the document the batch is waiting for, or
\* raises; the result is appended and the loop sleeps for a second
BatchEmbedReturn ==
    /\ batch.pc = "embedding"
    /\ \E em \in {"ok", "raise"}, up \in BOOLEAN, lwEnd \in BOOLEAN :
        LET file_path == batch.items[batch.idx]
            e == PdpEnd(ledger, store, "batch", file_path, batch.n, em, up, lwEnd)
        IN  /\ em = "raise" => up
            /\ ledger' = e.ledger
            /\ store' = e.store
            /\ ret' = e.ret
            /\ batch' = [batch EXCEPT !.pc = "sleep", !.idx = batch.idx + 1, !.n = 0,
                                      !.results = batch.results \o
                                          <<ResultEntry(file_path, e.ret.status, e.ret.wrote)
                                                @@ NotReached>>]
    /\ batchRet' = NoRet
    /\ UNCHANGED <<run, batchSucceeded, batches>>
    /\ UNCHANGED <<authVars, queryVars, analyticsVars>>

\* asyncio.sleep(1) is over: the loop goes on
BatchWake ==
    /\ batch.pc = "sleep"
    /\ BatchAdvance(batch)
    /\ UNCHANGED <<store, run, batches>>
    /\ UNCHANGED <<authVars, queryVars, analyticsVars>>

----------------------------------------------------------------------------
(* Ingestion: specifications *)

InitIngestVars ==
    /\ ledger = [d \in DocIds |-> NoRow]
    /\ store = EmptyBag
    /\ run = [c \in Callers |-> IdleRun]
    /\ ret = NoRet
    /\ batch = IdleBatch
    /\ batchRet = NoRet
    /\ batchSucceeded = {}
    /\ batches = 0

InitAuthIdle ==
    /\ widgets = <<>>
    /\ tokens = {}
    /\ now = 0
    /\ lastToken = NoRet
    /\ lastChat = NoRet
    /\ chatTurns = EmptyBag

InitQueryIdle ==
    /\ lastRetrieve = NoRet
    /\ lastAnswer = NoRet

NoInput == [items |-> <<>>]

InitAnalyticsIdle ==
    /\ clusterInput = NoInput
    /\ clusterRuns = <<>>
    /\ lastCluster = NoRet
    /\ gaps = <<>>
    /\ commonIssues = {}
    /\ refreshes = 0
    /\ gapActions = 0
    /\ lastAnalytics = NoRet

InitIngest == InitIngestVars /\ InitAuthIdle /\ InitQueryIdle /\ InitAnalyticsIdle

\* the paths of the single-document runs: a file of owner A's folder and a
\* file at the top of the bucket
RunPaths == {PathA1, PathR}

\* single documents: a manual call and a webhook-triggered one
NextIngest ==
    \/ \E file_path \in RunPaths : ManualStart(file_path)
    \/ \E file_path \in RunPaths : WebhookInsert(file_path)
    \/ WebhookTaskStart
    \/ \E c \in Callers : RunEmbedReturn(c)

SpecIngest == InitIngest /\ [][NextIngest]_vars

\* batch runs
NextBatch ==
    \/ BatchBegin
    \/ BatchEmbedReturn
    \/ BatchWake

SpecBatch == InitIngest /\ [][NextBatch]_vars

\* the event loop resumes the batch when its sleep is over, and a call of the
\* embedding service ends: the service answers, or the call raises
SpecBatchLive == SpecBatch /\ WF_vars(BatchWake) /\ WF_vars(BatchEmbedReturn)

----------------------------------------------------------------------------
(* retrieve and generate_answer *)

WidgetW1 == <<"w", "1">>
WidgetW2 == <<"w", "2">>

\* stands for "I couldn't find relevant information in the knowledge base."
Fallback == <<"n", "o">>

\* retrieve's parameter default: top_k = 5
DefaultTopK == 5

\* a guard that tests the query without stripping it
QueryEmpty(query) == query = <<>>

\* not query.strip()
QueryBlank(query) == Strip(query) = <<>>

\* the Qdrant scroll for one point with the widget_id; an exception counts
\* as no point
HasWidgetScoped(st, widget_id, probeOk) ==
    probeOk /\ \E p \in DOMAIN st : p.widget_id = widget_id

\* the conditions of a Qdrant filter, NoneVal for no condition on the key
NoFilter == [owner_id |-> NoneVal, widget_id |-> NoneVal]

\* a filter that drops the owner condition once the widget has chunks
BuildFilterWidgetOnly(st, owner_id, widget_id, probeOk) ==
    IF Truthy(owner_id)
    THEN IF Truthy(widget_id) /\ HasWidgetScoped(st, widget_id, probeOk)
         THEN [owner_id |-> NoneVal, widget_id |-> widget_id]
         ELSE [owner_id |-> owner_id, widget_id |-> NoneVal]
    ELSE NoFilter

\* the filter retrieve composes
BuildFilter(st, owner_id, widget_id, probeOk) ==
    IF Truthy(owner_id)
    THEN IF Truthy(widget_id)
         THEN IF HasWidgetScoped(st, widget_id, probeOk)
              THEN [owner_id |-> owner_id, widget_id |-> widget_id]
              ELSE [owner_id |-> owner_id, widget_id |-> NoneVal]
         ELSE [owner_id |-> owner_id, widget_id |-> NoneVal]
    ELSE NoFilter

\* a point passes the filter: every condition matches a payload key
Matches(p, f) ==
    /\ f.owner_id = NoneVal \/ p.owner_id = f.owner_id
    /\ f.widget_id = NoneVal \/ p.widget_id = f.widget_id

Matching(st, f) == [p \in {q \in DOMAIN st : Matches(q, f)} |-> st[p]]

\* what qdrant_client.search may return: top_k of the points that pass the
\* filter, all of them if they are fewer (which ones depends on the vectors)
SearchResults(st, f, top_k) ==
    {d \in SubBag(Matching(st, f)) :
        BagCardinality(d) = Min(top_k, BagCardinality(Matching(st, f)))}

\* retrieve, with the backend calls it makes
\*   embedOk, probeOk, searchOk: the embedding call, the widget probe and the
\*   search succeed; hits: what the search returns
RetrieveCall(st, query, top_k, owner_id, widget_id, embedOk, probeOk, searchOk, hits) ==
    LET probes == IF Truthy(owner_id) /\ Truthy(widget_id) THEN 1 ELSE 0
    IN  IF QueryBlank(query)
        THEN [outcome |-> "ok", docs |-> EmptyBag, filter |-> NoFilter,
              embedCalls |-> 0, probeCalls |-> 0, searchCalls |-> 0]
        ELSE IF ~embedOk
        THEN [outcome |-> "raise", docs |-> EmptyBag, filter |-> NoFilter,
              embedCalls |-> 1, probeCalls |-> 0, searchCalls |-> 0]
        ELSE IF ~searchOk
        THEN [outcome |-> "raise", docs |-> EmptyBag,
              filter |-> BuildFilter(st, owner_id, widget_id, probeOk),
              embedCalls |-> 1, probeCalls |-> probes, searchCalls |-> 1]
        ELSE [outcome |-> "ok", docs |-> hits,
              filter |-> BuildFilter(st, owner_id, widget_id, probeOk),
              embedCalls |-> 1, probeCalls |-> probes, searchCalls |-> 1]

\* the hits a call of retrieve may get from its search, EmptyBag if it makes none
HitsFor(st, query, top_k, owner_id, widget_id, embedOk, probeOk, searchOk) ==
    IF ~QueryBlank(query) /\ embedOk /\ searchOk
    THEN SearchResults(st, BuildFilter(st, owner_id, widget_id, probeOk), top_k)
    ELSE {EmptyBag}

\* generate_answer without its guard on empty context
GenerateAnswerNoGuard(query, context_docs, temperature, completionOk, text) ==
    IF ~completionOk
    THEN [outcome |-> "raise", answer |-> NoneVal, completionCalls |-> 1]
    ELSE [outcome |-> "ok", answer |-> Strip(text), completionCalls |-> 1]

\* generate_answer, with the completion call it makes
\*   completionOk: the completion call succeeds; text: its output_text
GenerateAnswerCall(query, context_docs, temperature, completionOk, text) ==
    IF BagCardinality(context_docs) = 0
    THEN [outcome |-> "ok", answer |-> Fallback, completionCalls |-> 0]
    ELSE IF ~completionOk
    THEN [outcome |-> "raise", answer |-> NoneVal, completionCalls |-> 1]
    ELSE [outcome |-> "ok", answer |-> Strip(text), completionCalls |-> 1]

Queries == {<<>>, <<" ", "\t">>, <<"q">>}

Completions == {<<>>, <<" ">>, <<"a", " ">>}

\* temperatures, in tenths
Temperatures == {2, 10}

\* DocumentProcessor.store_in_qdrant is called with the one chunk of a short
\* document whose metadata names an owner, a widget, both or neither
StoreChunks ==
    \E user_id \in {NoneVal, OwnerA, OwnerB}, widget_id \in {NoneVal, WidgetW1},
       n \in {1}, upsertOk \in BOOLEAN :
        LET metadata == [file_path |-> <<"x">>, user_id |-> user_id,
                         widget_id |-> widget_id, chunk_count |-> 0]
        IN  /\ BagCardinality(store) + n <= MaxStored
            /\ store' = StoreInQdrant(store, ChunkText(n, metadata), n, <<"x">>, upsertOk)
            /\ lastRetrieve' = NoRet
            /\ lastAnswer' = NoRet
            /\ UNCHANGED <<ledger, run, ret, batch, batchRet, batchSucceeded, batches>>
            /\ UNCHANGED <<authVars, analyticsVars>>

\* pipeline.retrieve is called
Retrieve ==
    \E query \in Queries, top_k \in {1, DefaultTopK},
       owner_id \in {NoneVal, OwnerA, OwnerB}, widget_id \in {NoneVal, WidgetW1, WidgetW2},
       embedOk \in BOOLEAN, probeOk \in BOOLEAN, searchOk \in BOOLEAN :
        \E hits \in HitsFor(store, query, top_k, owner_id, widget_id, embedOk, probeOk, searchOk) :
            \* a call that is not made has no outcome to choose
            /\ QueryBlank(query) => embedOk
            /\ ~embedOk \/ QueryBlank(query) => probeOk /\ searchOk
            /\ lastRetrieve' =
                    [query |-> query, top_k |-> top_k, owner_id |-> owner_id,
                     widget_id |-> widget_id, probeOk |-> probeOk,
                     result |-> RetrieveCall(store, query, top_k, owner_id, widget_id,
                                             embedOk, probeOk, searchOk, hits)]
            /\ lastAnswer' = NoRet
            /\ UNCHANGED ingestVars
            /\ UNCHANGED <<authVars, analyticsVars>>

\* pipeline.generate_answer is called, with documents some search returned
GenerateAnswer ==
    \E query \in {<<"q">>}, context_docs \in SubBag(store), temperature \in Temperatures,
       completionOk \in BOOLEAN, text \in Completions :
        \* a call that is not made has no outcome to choose
        /\ BagCardinality(context_docs) = 0 => completionOk /\ text = <<>>
        /\ ~completionOk => text = <<>>
        /\ lastAnswer' =
                [query |-> query, context_docs |-> context_docs, temperature |-> temperature,
                 result |-> GenerateAnswerCall(query, context_docs, temperature, completionOk, text)]
        /\ lastRetrieve' = NoRet
        /\ UNCHANGED ingestVars
        /\ UNCHANGED <<authVars, analyticsVars>>

InitQuery == InitIngestVars /\ InitAuthIdle /\ InitQueryIdle /\ InitAnalyticsIdle

NextQuery ==
    \/ StoreChunks
    \/ Retrieve
    \/ GenerateAnswer

SpecQuery == InitQuery /\ [][NextQuery]_vars

----------------------------------------------------------------------------
(* Widgets, widget tokens and widget chat *)

\* WidgetTokenRequest: expires_in: int | None = 3600
DefaultExpiresIn == 3600

\* create_widget_token: request.expires_in or 60 * 15
FallbackExpiresIn == 900

\* Config.EMBED_SECRET
EmbedSecret == <<"k">>

Secret1 == <<"s", "1">>
Secret2 == <<"s", "2">>

\* Origin header values: the second is the first with a trailing slash
Origin1 == <<"h">>
Origin2 == <<"h", "/">>

\* hmac.new(key, msg, sha256).hexdigest(): a digest that determines key and
\* message (no collisions)
Hmac(key, msg) == <<"#">> \o key \o <<"#">> \o msg

\* the ids POST /widgets generates
WidgetIds == {WidgetW1}

\* a row of the widgets table
WidgetRow(owner_id, allowed_origins, secret_hash, secret) ==
    [owner_id |-> owner_id, allowed_origins |-> allowed_origins,
     secret_hash |-> secret_hash, secret |-> secret]

\* a row written before secret_hash existed: the secret is stored in plaintext
LegacyRow == WidgetRow(OwnerA, <<>>, NoneVal, Secret1)

\* widget = None
NoWidget == [missing |-> TRUE]

\* select * from widgets where id = widget_id limit 1: the row, or NoWidget
\* when there is none or the lookup raises
LookupWidget(ws, widget_id, lookupOk) ==
    IF lookupOk /\ widget_id \in DOMAIN ws /\ ws[widget_id] # NoWidget
    THEN ws[widget_id]
    ELSE NoWidget

\* an origin check that accepts an origin an allowed origin is a prefix of
OriginOkPrefix(origin, allowed_origins) ==
    /\ Truthy(origin)
    /\ \E i \in 1..Len(allowed_origins) : StartsWith(origin, allowed_origins[i])

\* the browser flow of create_widget_token
OriginOk(origin, allowed_origins) ==
    /\ Truthy(origin)
    /\ \E i \in 1..Len(allowed_origins) : allowed_origins[i] = origin

\* the server flow of create_widget_token
SecretOk(x_widget_secret, secret_hash_stored, legacy_secret_stored) ==
    IF Truthy(x_widget_secret) /\ Truthy(secret_hash_stored)
    THEN Hmac(EmbedSecret, x_widget_secret) = secret_hash_stored
    ELSE IF Truthy(x_widget_secret) /\ Truthy(legacy_secret_stored)
    THEN x_widget_secret = legacy_secret_stored
    ELSE FALSE

\* an optional integer of a request body: null, or a number
Null == [null |-> TRUE]
Num(n) == [int |-> n]

\* x or d for an optional integer x
IntOr(x, d) == IF "int" \in DOMAIN x /\ x.int # 0 THEN x.int ELSE d

\* the parsed WidgetTokenRequest: a field the body leaves out takes its default
WidgetTokenRequest(body) ==
    [widget_id |-> body.widget_id,
     expires_in |-> IF "expires_in" \in DOMAIN body THEN body.expires_in
                    ELSE Num(DefaultExpiresIn)]

\* create_widget_token at time t
CreateWidgetTokenCall(ws, body, origin, x_widget_secret, lookupOk, t) ==
    LET request == WidgetTokenRequest(body)
        widget == LookupWidget(ws, request.widget_id, lookupOk)
        expires_in == IntOr(request.expires_in, FallbackExpiresIn)
    IN  IF widget = NoWidget
        THEN [status |-> 404, detail |-> "Widget not found"]
        ELSE IF ~(OriginOk(origin, widget.allowed_origins)
                  \/ SecretOk(x_widget_secret, widget.secret_hash, widget.secret))
        THEN [status |-> 401, detail |-> "Unauthorized widget token request"]
        ELSE [status |-> 200,
              token |-> [owner_id |-> widget.owner_id, widget_id |-> request.widget_id,
                         iat |-> t, exp |-> t + expires_in]]

\* a validation that does not look at the expiry
JwtDecodeNoExpiry(auth, t) ==
    /\ auth.signed
    /\ auth.token.iat <= t

\* jwt.decode(token, EMBED_SECRET, algorithms=["HS256"]) at time t: the
\* signature verifies, the token has not expired and was not issued in the future
JwtDecode(auth, t) ==
    /\ auth.signed
    /\ t < auth.token.exp
    /\ auth.token.iat <= t

NoCalls == [embedCalls |-> 0, probeCalls |-> 0, searchCalls |-> 0, completionCalls |-> 0,
            turns |-> <<>>]

Rejected(status, detail) == [status |-> status, detail |-> detail] @@ NoCalls

\* a comparison that lets every token through
OwnerMatchesAlways(widget, owner_id) == TRUE

\* the owner comparison of widget_chat
OwnerMatches(widget, owner_id) == Str(widget.owner_id) = Str(owner_id)

\* the validation of widget_chat at time t: a rejection, or status 0 with the
\* owner_id and widget_id the chat runs under
ValidateWidgetToken(ws, auth, t, lookupOk) ==
    IF auth.kind = "missing"
    THEN Rejected(401, "Missing authorization token")
    ELSE IF ~JwtDecode(auth, t)
    THEN Rejected(401, "Invalid authorization token")
    ELSE IF ~Truthy(auth.token.widget_id)
    THEN Rejected(400, "Token missing widget_id")
    ELSE
    LET widget == LookupWidget(ws, auth.token.widget_id, lookupOk)
        owner_id == IF Truthy(auth.token.owner_id) THEN auth.token.owner_id
                    ELSE widget.owner_id
    IN  IF widget = NoWidget
        THEN Rejected(401, "Invalid widget token")
        ELSE IF ~OwnerMatches(widget, owner_id)
        THEN Rejected(401, "Invalid widget token")
        ELSE [status |-> 0, owner_id |-> owner_id, widget_id |-> auth.token.widget_id]

\* conversation_id = str(uuid4())
NewConversation == <<"u">>

\* widget_chat at time t
\*   auth: the Authorization header; request: the WidgetChatRequest;
\*   lookupOk .. completionOk: the backend calls succeed; hits, text: what the
\*   search and the completion return; turnOk: the insert into chat_turns succeeds
WidgetChatCall(ws, st, auth, request, t, lookupOk, embedOk, probeOk, searchOk, hits, completionOk, text, turnOk) ==
    LET v == ValidateWidgetToken(ws, auth, t, lookupOk)
    IN  IF v.status # 0
        THEN v
        ELSE
        LET conversation_id == IF Truthy(request.conversation_id)
                               THEN request.conversation_id ELSE NewConversation
            r == RetrieveCall(st, request.query, IntOr(request.top_k, DefaultTopK),
                              v.owner_id, v.widget_id, embedOk, probeOk, searchOk, hits)
            a == GenerateAnswerCall(request.query, r.docs, IntOr(request.temperature, 2),
                                    completionOk, text)
            calls == [embedCalls |-> r.embedCalls, probeCalls |-> r.probeCalls,
                      searchCalls |-> r.searchCalls]
            turn == [conversation_id |-> conversation_id, owner_id |-> v.owner_id,
                     user_message |-> request.query, assistant_message |-> a.answer,
                     status |-> IF Truthy(a.answer) THEN "resolved" ELSE "gap"]
        IN  IF r.outcome = "raise"
            THEN [status |-> 500, detail |-> "Chat service unavailable",
                  completionCalls |-> 0, turns |-> <<>>] @@ calls
            ELSE IF a.outcome = "raise"
            THEN [status |-> 500, detail |-> "Chat service unavailable",
                  completionCalls |-> a.completionCalls, turns |-> <<>>] @@ calls
            ELSE [status |-> 200, detail |-> "", answer |-> a.answer, documents |-> r.docs,
                  owner_id |-> v.owner_id, filter |-> r.filter,
                  conversation_id |-> conversation_id,
                  completionCalls |-> a.completionCalls,
                  turnAttempts |-> 1,
                  turns |-> IF turnOk THEN <<turn>> ELSE <<>>] @@ calls

\* the instants the clock shows: the issue times, the seconds before and
\* after the end of the shorter lifetime, and an instant after the longer one
Instants ==
    (0..MaxIssueTime) \cup
    {t + FallbackExpiresIn + e : t \in 0..MaxIssueTime, e \in {-1, 1}} \cup
    {MaxIssueTime + DefaultExpiresIn + 1}

\* no response of a widget endpoint is on its way to the client
NoResponse == lastToken = NoRet /\ lastChat = NoRet

\* the response of create_widget_token or widget_chat reaches the client
Respond ==
    /\ ~NoResponse
    /\ lastToken' = NoRet
    /\ lastChat' = NoRet
    /\ UNCHANGED <<widgets, tokens, now, chatTurns>>
    /\ UNCHANGED ingestVars
    /\ UNCHANGED <<queryVars, analyticsVars>>

\* POST /widgets by an authenticated owner: the id is a fresh uuid
\*   insert: "ok", "no_column" (the table lacks secret_hash: the row is
\*   inserted without it) or "fail"
CreateWidget ==
    \E owner_id \in Owners, allowed_origins \in {<<>>, <<Origin1>>},
       insert \in {"ok", "no_column", "fail"} :
        LET widget_id == CHOOSE w \in WidgetIds : w \notin DOMAIN widgets
            secret_hash == IF insert = "ok" THEN Hmac(EmbedSecret, Secret1) ELSE NoneVal
        IN  /\ NoResponse
            /\ WidgetIds \ DOMAIN widgets # {}
            /\ widgets' = IF insert = "fail" THEN widgets
                          ELSE widgets @@ (widget_id :> WidgetRow(owner_id, allowed_origins, secret_hash, NoneVal))
            /\ lastToken' = NoRet
            /\ lastChat' = NoRet
            /\ UNCHANGED <<tokens, now, chatTurns>>
            /\ UNCHANGED ingestVars
            /\ UNCHANGED <<queryVars, analyticsVars>>

\* PATCH /widgets/{widget_id} by the owner of the widget
UpdateWidget ==
    \E widget_id \in DOMAIN widgets, owner_id \in Owners, allowed_origins \in {<<>>, <<Origin1>>} :
        /\ NoResponse
        /\ widgets[widget_id] # NoWidget
        /\ Str(widgets[widget_id].owner_id) = Str(owner_id)
        /\ widgets' = [widgets EXCEPT ![widget_id].allowed_origins = allowed_origins]
        /\ lastToken' = NoRet
        /\ lastChat' = NoRet
        /\ UNCHANGED <<tokens, now, chatTurns>>
        /\ UNCHANGED ingestVars
        /\ UNCHANGED <<queryVars, analyticsVars>>

\* DELETE /widgets/{widget_id} by the owner of the widget
DeleteWidget ==
    \E widget_id \in DOMAIN widgets, owner_id \in Owners :
        /\ NoResponse
        /\ widgets[widget_id] # NoWidget
        /\ Str(widgets[widget_id].owner_id) = Str(owner_id)
        /\ widgets' = [widgets EXCEPT ![widget_id] = NoWidget]
        /\ lastToken' = NoRet
        /\ lastChat' = NoRet
        /\ UNCHANGED <<tokens, now, chatTurns>>
        /\ UNCHANGED ingestVars
        /\ UNCHANGED <<queryVars, analyticsVars>>

\* the operator of the database gives the widget to another owner, or to none
ReassignWidget ==
    \E widget_id \in DOMAIN widgets, owner_id \in Owners \cup {NoneVal} :
        /\ NoResponse
        /\ widgets[widget_id] # NoWidget
        /\ widgets[widget_id].owner_id # owner_id
        /\ widgets' = [widgets EXCEPT ![widget_id].owner_id = owner_id]
        /\ lastToken' = NoRet
        /\ lastChat' = NoRet
        /\ UNCHANGED <<tokens, now, chatTurns>>
        /\ UNCHANGED ingestVars
        /\ UNCHANGED <<queryVars, analyticsVars>>

\* time passes
Tick ==
    \E t \in Instants :
        /\ NoResponse
        /\ t > now
        /\ now' = t
        /\ lastToken' = NoRet
        /\ lastChat' = NoRet
        /\ UNCHANGED <<widgets, tokens, chatTurns>>
        /\ UNCHANGED ingestVars
        /\ UNCHANGED <<queryVars, analyticsVars>>

TokenBodies ==
    {[widget_id |-> w] : w \in {WidgetW1, WidgetW2}} \cup
    {[widget_id |-> WidgetW1, expires_in |-> e] : e \in {Null, Num(0), Num(FallbackExpiresIn)}}

\* POST /widget/token
CreateWidgetToken ==
    \E body \in TokenBodies, origin \in {NoneVal, Origin1, Origin2},
       x_widget_secret \in {NoneVal, Secret1, Secret2}, lookupOk \in BOOLEAN :
        LET result == CreateWidgetTokenCall(widgets, body, origin, x_widget_secret, lookupOk, now)
        IN  /\ NoResponse
            /\ now <= MaxIssueTime
            \* a check that is not reached has no input to choose
            /\ result.status = 404 => origin = NoneVal /\ x_widget_secret = NoneVal
            /\ result.status = 200 =>
                result.token \in tokens \/ Cardinality(tokens) < MaxTokens
            /\ tokens' = IF result.status = 200 THEN tokens \cup {result.token} ELSE tokens
            /\ lastToken' = [body |-> body, origin |-> origin,
                             x_widget_secret |-> x_widget_secret, lookupOk |-> lookupOk,
                             result |-> result]
            /\ lastChat' = NoRet
            /\ UNCHANGED <<widgets, now, chatTurns>>
            /\ UNCHANGED ingestVars
            /\ UNCHANGED <<queryVars, analyticsVars>>

\* a token signed with another key
ForgedToken == [owner_id |-> OwnerA, widget_id |-> WidgetW1, iat |-> 0, exp |-> 2 * DefaultExpiresIn]

Authorizations ==
    {[kind |-> "missing"]} \cup
    {[kind |-> "bearer", token |-> tk, signed |-> TRUE] : tk \in tokens} \cup
    {[kind |-> "bearer", token |-> ForgedToken, signed |-> FALSE]}

\* WidgetChatRequest with top_k, temperature (in tenths) and conversation_id omitted
DefaultChatRequest ==
    [query |-> <<"q">>, top_k |-> Num(DefaultTopK), temperature |-> Num(2), conversation_id |-> NoneVal]

ChatRequests ==
    {[DefaultChatRequest EXCEPT !.query = q] : q \in {<<"q">>, <<" ">>}}

\* widget_chat answers, and appends the turn it recorded
ChatStep(auth, request, lookupOk, embedOk, probeOk, searchOk, hits, completionOk, text, turnOk) ==
    LET result == WidgetChatCall(widgets, store, auth, request, now, lookupOk,
                                 embedOk, probeOk, searchOk, hits, completionOk, text, turnOk)
    IN  /\ BagCardinality(chatTurns) + Len(result.turns) <= MaxTurns
        /\ chatTurns' = IF result.turns = <<>> THEN chatTurns
                         ELSE chatTurns (+) SetToBag({result.turns[1]})
        /\ lastChat' = [auth |-> auth, request |-> request, lookupOk |-> lookupOk,
                        result |-> result]
        /\ lastToken' = NoRet
        /\ UNCHANGED <<widgets, tokens, now>>
        /\ UNCHANGED ingestVars
        /\ UNCHANGED <<queryVars, analyticsVars>>

\* POST /widget/chat; a backend call that is not made has no outcome to choose
WidgetChat ==
    \E auth \in Authorizations, request \in ChatRequests, lookupOk \in BOOLEAN :
        LET v == ValidateWidgetToken(widgets, auth, now, lookupOk)
            blank == QueryBlank(request.query)
        IN  /\ NoResponse
            /\ ~(auth.kind = "bearer" /\ JwtDecode(auth, now)) => lookupOk
            \* a request that is rejected before its body is used has no body to choose
            /\ v.status # 0 => request = DefaultChatRequest
            /\ IF v.status # 0
               THEN ChatStep(auth, request, lookupOk, TRUE, TRUE, TRUE, EmptyBag, TRUE, <<>>, TRUE)
               ELSE \E embedOk \in BOOLEAN, probeOk \in BOOLEAN, searchOk \in BOOLEAN :
                    /\ blank => embedOk
                    /\ (blank \/ ~embedOk) => probeOk /\ searchOk
                    /\ \E hits \in HitsFor(store, request.query, IntOr(request.top_k, DefaultTopK),
                                           v.owner_id, v.widget_id, embedOk, probeOk, searchOk) :
                       \E completionOk \in BOOLEAN, text \in {<<>>, <<"a", " ">>}, turnOk \in BOOLEAN :
                            /\ (hits = EmptyBag \/ ~completionOk) => text = <<>>
                            /\ hits = EmptyBag => completionOk
                            /\ (~completionOk \/ (~blank /\ ~(embedOk /\ searchOk))) => turnOk
                            /\ ChatStep(auth, request, lookupOk, embedOk, probeOk, searchOk, hits,
                                        completionOk, text, turnOk)

\* the collection when the widget endpoints are explored: a chunk of each
\* owner, and a chunk of owner A tagged with the first widget
SeedStore ==
    LET chunk(user_id, widget_id) ==
            ChunkText(1, [file_path |-> <<"x">>, user_id |-> user_id,
                          widget_id |-> widget_id, chunk_count |-> 0])
        s1 == StoreInQdrant(EmptyBag, chunk(OwnerA, NoneVal), 1, <<"x">>, TRUE)
        s2 == StoreInQdrant(s1, chunk(OwnerB, NoneVal), 1, <<"x">>, TRUE)
    IN  StoreInQdrant(s2, chunk(OwnerA, WidgetW1), 1, <<"x">>, TRUE)

\* the widgets table is empty, or holds a row written before secret_hash existed
InitToken ==
    /\ InitIngestVars
    /\ widgets \in {<<>>, WidgetW1 :> LegacyRow}
    /\ tokens = {}
    /\ now = 0
    /\ lastToken = NoRet
    /\ lastChat = NoRet
    /\ chatTurns = EmptyBag
    /\ InitQueryIdle
    /\ InitAnalyticsIdle

NextToken ==
    \/ CreateWidget
    \/ UpdateWidget
    \/ DeleteWidget
    \/ CreateWidgetToken
    \/ Respond

\* the dashboard manages widgets and clients ask for tokens
SpecToken == InitToken /\ [][NextToken]_vars

\* owner A has created a widget for the first origin, and the collection is seeded
InitChat ==
    /\ ledger = [d \in DocIds |-> NoRow]
    /\ store = SeedStore
    /\ run = [c \in Callers |-> IdleRun]
    /\ ret = NoRet
    /\ batch = IdleBatch
    /\ batchRet = NoRet
    /\ batchSucceeded = {}
    /\ batches = 0
    /\ widgets = WidgetW1 :> WidgetRow(OwnerA, <<Origin1>>, Hmac(EmbedSecret, Secret1), NoneVal)
    /\ tokens = {}
    /\ now = 0
    /\ lastToken = NoRet
    /\ lastChat = NoRet
    /\ chatTurns = EmptyBag
    /\ InitQueryIdle
    /\ InitAnalyticsIdle

NextChat ==
    \/ ReassignWidget
    \/ DeleteWidget
    \/ Tick
    \/ CreateWidgetToken
    \/ WidgetChat
    \/ Respond

\* clients of one widget ask for tokens and chat, while time passes and the
\* widget changes hands or is deleted
SpecChat == InitChat /\ [][NextChat]_vars

----------------------------------------------------------------------------
(* Analytics: clustering of questions (backend/analytics/agent.py) *)

\* question texts: "ab" and "Abc" are close once lowered, "c" is close to neither
Questions == {<<"a", "b">>, <<"A", "b", "c">>, <<"c">>}

\* embedding vectors: <<1, 0>> is within the threshold of <<2, 1>> and not of
\* <<1, 1>>; the zero vector has cosine 0.0 with everything
Vectors == {<<1, 0>>, <<1, 1>>, <<2, 1>>, <<0, 0>>}

UpperCase == <<"A", "B", "C", "D", "E", "F", "G", "H", "I", "J", "K", "L", "M",
               "N", "O", "P", "Q", "R", "S", "T", "U", "V", "W", "X", "Y", "Z">>
LowerCase == <<"a", "b", "c", "d", "e", "f", "g", "h", "i", "j", "k", "l", "m",
               "n", "o", "p", "q", "r", "s", "t", "u", "v", "w", "x", "y", "z">>

\* str.lower()
Lower(s) ==
    [i \in 1..Len(s) |->
        IF \E k \in DOMAIN UpperCase : UpperCase[k] = s[i]
        THEN LowerCase[CHOOSE k \in DOMAIN UpperCase : UpperCase[k] = s[i]]
        ELSE s[i]]

\* list.sort(key=key, reverse=True): descending, and stable
SortDesc(s, key(_)) ==
    LET rank(i) == 1 + Cardinality({j \in 1..Len(s) :
                        key(s[j]) > key(s[i]) \/ (key(s[j]) = key(s[i]) /\ j < i)})
    IN  [k \in 1..Len(s) |-> s[CHOOSE i \in 1..Len(s) : rank(i) = k]]

\* clusters[:limit] if limit and limit > 0 else clusters
Truncate(clusters, limit) ==
    IF IntOr(limit, 0) > 0 THEN SubSeq(clusters, 1, Min(Len(clusters), limit.int)) ELSE clusters

Dot(a, b) == a[1] * b[1] + a[2] * b[2]

\* cos(a, b) >= 0.78, where cos is 0.0 if a or b is the zero vector
SimilarityReached(a, b) ==
    /\ Dot(a, a) # 0
    /\ Dot(b, b) # 0
    /\ Dot(a, b) >= 0
    /\ 10000 * Dot(a, b) * Dot(a, b) >= 6084 * Dot(a, a) * Dot(b, b)

\* the greedy loop of _cluster_using_embeddings over the items left
\*   centroid is kept multiplied by vec_count (the sum of count * vec over the
\*   members), which has the cosines of the count-weighted mean the code keeps
RECURSIVE EmbedGreedy(_, _)
EmbedGreedy(q_items, clusters) ==
    IF q_items = <<>>
    THEN clusters
    ELSE LET it == Head(q_items)
             near == {k \in 1..Len(clusters) : SimilarityReached(it.vec, clusters[k].centroid)}
             first == CHOOSE k \in near : \A j \in near : k <= j
             c == clusters[first]
             joined == [c EXCEPT !.variants = Append(c.variants, it.q),
                                 !.total_count = c.total_count + it.count,
                                 !.centroid = <<c.centroid[1] + it.count * it.vec[1],
                                                c.centroid[2] + it.count * it.vec[2]>>,
                                 !.vec_count = c.vec_count + it.count]
             fresh == [canonical_question |-> it.q, total_count |-> it.count,
                       trend |-> "neutral", variants |-> <<it.q>>, tags |-> <<>>,
                       centroid |-> <<it.count * it.vec[1], it.count * it.vec[2]>>,
                       vec_count |-> it.count]
         IN  IF near = {}
             THEN EmbedGreedy(Tail(q_items), Append(clusters, fresh))
             ELSE EmbedGreedy(Tail(q_items), [clusters EXCEPT ![first] = joined])

\* the cluster without its "__centroid" and "__vec_count" keys
PublicCluster(c) ==
    [canonical_question |-> c.canonical_question, total_count |-> c.total_count,
     trend |-> c.trend, variants |-> c.variants, tags |-> c.tags]

\* a sort key that puts the smallest cluster first
TotalCountAscending(c) == 0 - c.total_count

TotalCount(c) == c.total_count

ItemCount(it) == it.count

\* _cluster_using_embeddings whose legacy path leaves the items in the order given
ClusterUsingEmbeddingsLegacyUnsorted(questions, counts, vecs, api) ==
    IF api = "fail" \/ vecs = <<>> \/ Len(vecs) # Len(questions)
    THEN <<>>
    ELSE LET zipped == [i \in 1..Len(questions) |->
                            [q |-> questions[i], count |-> counts[i], vec |-> vecs[i]]]
             q_items == IF api = "legacy" THEN zipped ELSE SortDesc(zipped, ItemCount)
             clusters == EmbedGreedy(q_items, <<>>)
         IN  SortDesc([k \in 1..Len(clusters) |-> PublicCluster(clusters[k])], TotalCount)

\* _cluster_using_embeddings
\*   vecs: the embeddings the service returned
\*   api: "client" (embeddings.create answered), "legacy" (it raised and the
\*        legacy Embedding.create answered) or "fail" (both raised)
ClusterUsingEmbeddings(questions, counts, vecs, api) ==
    IF api = "fail" \/ vecs = <<>> \/ Len(vecs) # Len(questions)
    THEN <<>>
    ELSE LET zipped == [i \in 1..Len(questions) |->
                            [q |-> questions[i], count |-> counts[i], vec |-> vecs[i]]]
             q_items == SortDesc(zipped, ItemCount)
             clusters == EmbedGreedy(q_items, <<>>)
         IN  SortDesc([k \in 1..Len(clusters) |-> PublicCluster(clusters[k])], TotalCount)

\* the number of characters in the matching blocks of
\* SequenceMatcher(None, a, b): the longest common block (the earliest in a,
\* then the earliest in b), and the same to its left and to its right
RECURSIVE MatchCount(_, _)
MatchCount(a, b) ==
    LET blocks == {x \in (1..Len(a)) \X (1..Len(b)) \X (1..Min(Len(a), Len(b))) :
                        /\ x[1] + x[3] - 1 <= Len(a)
                        /\ x[2] + x[3] - 1 <= Len(b)
                        /\ SubSeq(a, x[1], x[1] + x[3] - 1) = SubSeq(b, x[2], x[2] + x[3] - 1)}
        best == CHOOSE x \in blocks : \A y \in blocks :
                    \/ x[3] > y[3]
                    \/ x[3] = y[3] /\ x[1] < y[1]
                    \/ x[3] = y[3] /\ x[1] = y[1] /\ x[2] <= y[2]
    IN  IF blocks = {}
        THEN 0
        ELSE best[3]
             + MatchCount(SubSeq(a, 1, best[1] - 1), SubSeq(b, 1, best[2] - 1))
             + MatchCount(SubSeq(a, best[1] + best[3], Len(a)), SubSeq(b, best[2] + best[3], Len(b)))

\* SequenceMatcher(None, a, b).ratio() >= 0.72
RatioReached(a, b) ==
    IF Len(a) + Len(b) = 0 THEN TRUE
    ELSE 200 * MatchCount(a, b) >= 72 * (Len(a) + Len(b))

\* the loop of _cluster_using_fuzzy over the items left
RECURSIVE FuzzyGreedy(_, _)
FuzzyGreedy(items, clusters) ==
    IF items = <<>>
    THEN clusters
    ELSE LET it == Head(items)
             near == {k \in 1..Len(clusters) :
                        RatioReached(Lower(it.q), Lower(clusters[k].canonical_question))}
             first == CHOOSE k \in near : \A j \in near : k <= j
             c == clusters[first]
             joined == [c EXCEPT !.variants = Append(c.variants, it.q),
                                 !.total_count = c.total_count + it.count]
             fresh == [canonical_question |-> it.q, total_count |-> it.count,
                       trend |-> "neutral", variants |-> <<it.q>>, tags |-> <<>>]
         IN  IF near = {}
             THEN FuzzyGreedy(Tail(items), Append(clusters, fresh))
             ELSE FuzzyGreedy(Tail(items), [clusters EXCEPT ![first] = joined])

\* _cluster_using_fuzzy
ClusterUsingFuzzy(items, limit) ==
    LET clusters == SortDesc(FuzzyGreedy(items, <<>>), TotalCount)
    IN  IF "int" \in DOMAIN limit /\ limit.int > 0
        THEN SubSeq(clusters, 1, Min(Len(clusters), limit.int))
        ELSE clusters

\* _cluster_questions_with_llm
\*   question_counts: the dictionary, as its (question, count) items in order
\*   client: an OpenAI client is configured
\*   vecs, api: what the embedding service answers for the questions asked
\*   llm: what responses.create does: [kind |-> "raise"], "no_json" (no text,
\*        text that is not JSON, or JSON without a clusters key), "not_list"
\*        (clusters is not a list), "not_dicts" (a list of items without
\*        .get), or "list" with the clusters of the answer
\*   tier: the tier that produced what is returned
ClusterQuestionsWithLlm(question_counts, limit, client, vecs, api, llm) ==
    LET sorted_items == SortDesc(question_counts, ItemCount)
        slice_size == IF IntOr(limit, 0) > 0 THEN 2 * limit.int ELSE Len(sorted_items)
        top_items == SubSeq(sorted_items, 1, Min(Len(sorted_items), slice_size))
        embedded == ClusterUsingEmbeddings([i \in 1..Len(top_items) |-> top_items[i].q],
                                           [i \in 1..Len(top_items) |-> top_items[i].count],
                                           vecs, api)
        fuzzy == [tier |-> "fuzzy", clusters |-> ClusterUsingFuzzy(top_items, limit)]
    IN  IF question_counts = <<>>
        THEN [tier |-> "none", clusters |-> <<>>]
        ELSE IF client /\ embedded # <<>>
        THEN [tier |-> "embeddings", clusters |-> Truncate(embedded, limit)]
        ELSE IF client /\ llm.kind = "no_json"
        THEN [tier |-> "llm", clusters |-> <<>>]
        ELSE IF client /\ llm.kind = "list"
        THEN [tier |-> "llm", clusters |-> Truncate(SortDesc(llm.clusters, TotalCount), limit)]
        ELSE fuzzy

\* the embeddings a service that answers gives for the items
VecsOf(items) == [i \in 1..Len(items) |-> items[i].vec]

QuestionCounts(items) == [i \in 1..Len(items) |-> [q |-> items[i].q, count |-> items[i].count]]

\* inputs of the clustering calls: distinct questions, each with a count and
\* an embedding
ClusterInputs ==
    {[items |-> s] : s \in {t \in UNION {[1..n -> [q : Questions, count : 1..2, vec : Vectors]] :
                                            n \in 1..MaxQuestions} :
                                \A i, j \in DOMAIN t : i # j => t[i].q # t[j].q}}

\* cluster lists an LLM may answer with for the items: none, or a single
\* cluster of all the questions
LlmClusters(items) ==
    {<<>>,
     <<[canonical_question |-> items[1].q, total_count |-> Len(items),
        trend |-> "up", variants |-> [i \in 1..Len(items) |-> items[i].q],
        tags |-> <<>>]>>}

LlmAnswers(items) ==
    {[kind |-> k] : k \in {"raise", "no_json", "not_list", "not_dicts"}} \cup
    {[kind |-> "list", clusters |-> c] : c \in LlmClusters(items)}

\* _cluster_using_embeddings is called on the input
ClusterEmbeddingsRun ==
    \E api \in {"client", "legacy", "fail"} :
        LET items == clusterInput.items
            result == ClusterUsingEmbeddings([i \in 1..Len(items) |-> items[i].q],
                                             [i \in 1..Len(items) |-> items[i].count],
                                             VecsOf(items), api)
        IN  /\ Len(clusterRuns) < MaxClusterRuns
            /\ lastCluster = NoRet
            /\ clusterRuns' = Append(clusterRuns, [api |-> api, clusters |-> result])
            /\ UNCHANGED <<clusterInput, lastCluster, gaps, commonIssues, refreshes, gapActions, lastAnalytics>>
            /\ UNCHANGED <<ingestVars, authVars, queryVars>>

\* _cluster_questions_with_llm is called on the input, once
ClusterQuestionsRun ==
    \E limit \in {Null, Num(1)}, client \in BOOLEAN,
       api \in {"client", "fail", "short"}, llm \in LlmAnswers(clusterInput.items) :
        LET items == clusterInput.items
            sorted == SortDesc(QuestionCounts(items), ItemCount)
            asked == SubSeq(SortDesc(items, ItemCount), 1,
                            IF IntOr(limit, 0) > 0 THEN Min(Len(items), 2 * limit.int) ELSE Len(items))
            vecs == IF api = "short" THEN Tail(VecsOf(asked)) ELSE VecsOf(asked)
            result == ClusterQuestionsWithLlm(QuestionCounts(items), limit, client, vecs, api, llm)
        IN  /\ lastCluster = NoRet
            /\ clusterRuns = <<>>
            \* a call that is not made has no outcome to choose
            /\ ~client => api = "client" /\ llm.kind = "raise"
            /\ result.tier = "embeddings" => llm.kind = "raise"
            /\ lastCluster' = [question_counts |-> QuestionCounts(items), limit |-> limit,
                               client |-> client, api |-> api, llm |-> llm, result |-> result]
            /\ UNCHANGED <<clusterInput, clusterRuns, gaps, commonIssues, refreshes, gapActions, lastAnalytics>>
            /\ UNCHANGED <<ingestVars, authVars, queryVars>>

InitCluster ==
    /\ InitIngestVars
    /\ InitAuthIdle
    /\ InitQueryIdle
    /\ clusterInput \in ClusterInputs
    /\ clusterRuns = <<>>
    /\ lastCluster = NoRet
    /\ gaps = <<>>
    /\ commonIssues = {}
    /\ refreshes = 0
    /\ gapActions = 0
    /\ lastAnalytics = NoRet

NextCluster ==
    \/ ClusterEmbeddingsRun
    \/ ClusterQuestionsRun

SpecCluster == InitCluster /\ [][NextCluster]_vars

\* inputs that hold every question, each with a count and an embedding
PartitionInputs ==
    {[items |-> s] : s \in {t \in [1..Cardinality(Questions) -> [q : Questions, count : 1..2,
                                             vec : Vectors \ {<<0, 0>>}]] :
                                \A i, j \in DOMAIN t : i # j => t[i].q # t[j].q}}

\* _cluster_using_fuzzy is called on the input, once
ClusterFuzzyRun ==
    \E limit \in {Null, Num(1)} :
        \E result \in {ClusterUsingFuzzy(QuestionCounts(clusterInput.items), limit)} :
            /\ lastCluster = NoRet
            /\ lastCluster' = [kind |-> "fuzzy", limit |-> limit, clusters |-> result]
            /\ UNCHANGED <<clusterInput, clusterRuns, gaps, commonIssues, refreshes, gapActions, lastAnalytics>>
            /\ UNCHANGED <<ingestVars, authVars, queryVars>>

InitPartition ==
    /\ InitIngestVars
    /\ InitAuthIdle
    /\ InitQueryIdle
    /\ clusterInput \in PartitionInputs
    /\ clusterRuns = <<>>
    /\ lastCluster = NoRet
    /\ gaps = <<>>
    /\ commonIssues = {}
    /\ refreshes = 0
    /\ gapActions = 0
    /\ lastAnalytics = NoRet

NextPartition ==
    \/ ClusterEmbeddingsRun
    \/ ClusterFuzzyRun

\* the two greedy clusterings, called on inputs that hold every question
SpecPartition == InitPartition /\ [][NextPartition]_vars

----------------------------------------------------------------------------
(* Analytics: knowledge gaps (backend/analytics/router.py, dao.py) *)

\* F(x), with x computed once however often F refers to it
Once(x, F(_)) == CHOOSE r \in {F(v) : v \in {x}} : TRUE

\* d.get(key): the value, or Null if the key is absent
Get(d, key) == IF key \in DOMAIN d THEN d[key] ELSE Null

\* entries of a linked_sources list: strings, and JSON objects (which Python
\* reads as dicts, and a dict cannot be put in a set)
SourceD == [kind |-> "str", v |-> "d"]
SourceU == [kind |-> "str", v |-> "u"]
SourceObj == [kind |-> "dict", v |-> "d"]

Hashable(item) == item.kind = "str"

\* the "for item in linked" loop of link_source from entry i on
\*   a result with raised = TRUE stands for the TypeError of "item not in seen"
RECURSIVE DedupLoop(_, _, _, _)
DedupLoop(linked, i, seen, deduped) ==
    IF i > Len(linked)
    THEN [raised |-> FALSE, deduped |-> deduped]
    ELSE IF ~Hashable(linked[i])
    THEN [raised |-> TRUE, deduped |-> deduped]
    ELSE IF linked[i] \in seen
    THEN DedupLoop(linked, i + 1, seen, deduped)
    ELSE DedupLoop(linked, i + 1, seen \cup {linked[i]}, Append(deduped, linked[i]))

\* the "# Deduplicate" block of link_source: on an exception the list is
\* left as it is
Deduplicate(linked) ==
    LET r == DedupLoop(linked, 1, {}, <<>>)
    IN  IF r.raised THEN linked ELSE r.deduped

\* linked.extend(x) for a list, linked.append(x) for anything else that is truthy
Extend(linked, field) ==
    IF "list" \in DOMAIN field THEN linked \o field.list
    ELSE IF "scalar" \in DOMAIN field THEN Append(linked, field.scalar)
    ELSE linked

\* the linked_sources list link_source stores, from the metadata of the row
\* it read (Null if it read none) and the metadata of the request
LinkedSources(existing_meta, metadata) ==
    LET had == Get(existing_meta, "linked_sources")
        linked == IF "list" \in DOMAIN had THEN had.list ELSE <<>>
    IN  Deduplicate(Extend(Extend(linked, Get(metadata, "documents")), Get(metadata, "urls")))

\* new_meta: the metadata of the row read, linked_sources, then the keys of
\* the request's metadata over them
NewMeta(existing_meta, metadata) ==
    metadata @@ [linked_sources |-> [list |-> LinkedSources(existing_meta, metadata)]] @@ existing_meta

\* the rows of knowledge_gaps a select or update with .eq('topic', topic),
\* and .eq('user_id', user_id) if user_id is truthy, applies to
MatchingGaps(gs, topic, user_id) ==
    {id \in DOMAIN gs : gs[id].topic = topic /\ (Truthy(user_id) => gs[id].user_id = user_id)}

\* the status each action of update_knowledge_gap sets
ActionStatus(action) ==
    IF action = "mark_resolved" THEN "resolved"
    ELSE IF action = "ignore" THEN "ignored"
    ELSE "in_progress"

\* the user_id of the request's metadata, None if it has none
MetadataUserId(metadata) ==
    IF "user_id" \in DOMAIN metadata THEN metadata.user_id ELSE NoneVal

\* update_knowledge_gap
\*   payload: the KnowledgeGapUpdate (gap_topic, action, metadata)
\*   read: the id of the row the select ... limit(1) returned, 0 if none
\*   selectOk, writeOk: the select and the update or insert succeed
UpdateKnowledgeGapCall(gs, payload, read, selectOk, writeOk) ==
    LET user_id == MetadataUserId(payload.metadata)
        existing_meta == IF read = 0 THEN <<>> ELSE gs[read].metadata
        meta == IF payload.action = "link_source"
                THEN NewMeta(existing_meta, payload.metadata)
                ELSE payload.metadata
        status == ActionStatus(payload.action)
        up == [site_id |-> NoneVal, topic |-> payload.gap_topic, user_id |-> user_id,
               widget_id |-> NoneVal, status |-> status, metadata |-> meta]
        updated == [id \in DOMAIN gs |->
                        IF id \in MatchingGaps(gs, payload.gap_topic, user_id)
                        THEN [gs[id] EXCEPT !.status = status, !.metadata = meta,
                                            !.user_id = IF Truthy(user_id) THEN user_id ELSE @]
                        ELSE gs[id]]
    IN  IF ~selectOk \/ ~writeOk
        THEN [status |-> 500, gaps |-> gs]
        ELSE [status |-> 200,
              linked_count |-> IF payload.action = "link_source"
                               THEN Len(meta.linked_sources.list) ELSE 0,
              gaps |-> IF read = 0 THEN Append(gs, up) ELSE updated]

----------------------------------------------------------------------------
(* Analytics: the refresh of common issues and gaps (backend/analytics/agent.py) *)

\* RefreshOptions.limit when the caller gives none
DefaultLimit == 20

SiteS1 == <<"s", "1">>
SiteS2 == <<"s", "2">>

Repeat(c, n) == [i \in 1..n |-> c]

\* assistant_message values: a reply under 40 characters, one of 40
\* characters, and one of 40 characters that begins with "I'm not sure"
ShortReply == <<"o", "k">>
LongReply == Repeat("x", 40)
UnsureReply == <<"I", "'", "m", " ", "n", "o", "t", " ", "s", "u", "r", "e">> \o Repeat("x", 28)

\* p in s
Contains(s, p) == \E i \in 1..(Len(s) - Len(p) + 1) : SubSeq(s, i, i + Len(p) - 1) = p

\* low_conf_phrases
LowConfPhrases ==
    {<<"i", " ", "d", "o", "n", "'", "t", " ", "k", "n", "o", "w">>,
     <<"i", " ", "a", "m", " ", "n", "o", "t", " ", "s", "u", "r", "e">>,
     <<"i", "'", "m", " ", "n", "o", "t", " ", "s", "u", "r", "e">>,
     <<"i", " ", "c", "a", "n", "n", "o", "t">>,
     <<"u", "n", "a", "b", "l", "e", " ", "t", "o">>,
     <<"n", "o", " ", "i", "n", "f", "o", "r", "m", "a", "t", "i", "o", "n">>,
     <<"c", "a", "n", "'", "t", " ", "f", "i", "n", "d">>}

\* len(txt) of txt = assistant_message.strip()
ReplyLength(assistant_message) == Len(Strip(assistant_message))

\* some phrase of low_conf_phrases is in txt.lower()
LowConfidence(assistant_message) ==
    \E low_conf \in {Lower(Strip(assistant_message))} :
        \E ph \in LowConfPhrases : Contains(low_conf, ph)

\* considered_gap of a chat_turns row without the strip of the reply
ConsideredGapUnstripped(row) ==
    \/ row.status = "gap"
    \/ ~Truthy(row.assistant_message)
    \/ Len(row.assistant_message) < 40
    \/ LowConfidence(row.assistant_message)

\* considered_gap of a chat_turns row (statuses are lower-case in the model,
\* assistant messages are strings or None)
ConsideredGap(row) ==
    \/ row.status = "gap"
    \/ ~Truthy(row.assistant_message)
    \/ ReplyLength(row.assistant_message) < 40
    \/ LowConfidence(row.assistant_message)

\* the embedding the service gives a question
EmbeddingOf(q) == IF q = <<"c">> THEN <<0, 1>> ELSE <<1, Len(q) - 2>>

\* _iter_chat_turns: the rows of chat_turns the filters of the options let
\* through, in the order of the table (newest first); no lookback
IterChatTurns(table, options) ==
    LET Passes(r) ==
            /\ IF Truthy(options.widget_id) THEN r.widget_id = options.widget_id
               ELSE Truthy(options.site_id) => r.site_id = options.site_id
            /\ Truthy(options.user_id) => r.user_id = options.user_id
    IN  SelectSeq(table, Passes)

\* _owner_for_row
\*   siteOwner: the user_id of the row of sites, NoneVal if there is none or
\*   the lookup raised
OwnerForRow(r, siteOwner) ==
    IF Truthy(r.user_id) THEN r.user_id
    ELSE IF ~Truthy(r.site_id) THEN NoneVal
    ELSE siteOwner

\* the entries of s in the order of their first occurrence: the keys of a
\* dictionary filled in the order of s
RECURSIVE KeysInOrder(_, _)
KeysInOrder(s, keys) ==
    IF s = <<>> THEN keys
    ELSE KeysInOrder(Tail(s), IF \E k \in DOMAIN keys : keys[k] = Head(s)
                              THEN keys ELSE Append(keys, Head(s)))

\* a dictionary of counts as its (key, count) items in order
CountItems(s) ==
    LET keys == KeysInOrder(s, <<>>)
    IN  [k \in DOMAIN keys |->
            [q |-> keys[k], count |-> Cardinality({i \in DOMAIN s : s[i] = keys[k]})]]

\* the first loop of refresh_most_asked_questions: the rows kept, each with
\* its stripped message and its owner
KeptRows(rows, options, siteOwner) ==
    LET tagged == [i \in DOMAIN rows |->
                      [row |-> rows[i], message |-> Strip(rows[i].user_message),
                       owner_id |-> OwnerForRow(rows[i], siteOwner)]]
        Kept(t) == /\ t.message # <<>>
                   /\ Truthy(t.owner_id)
                   /\ Truthy(options.user_id) => t.owner_id = options.user_id
    IN  SelectSeq(tagged, Kept)

\* counts.items() in order, each owner with its counts, gap counts and
\* representative site
OwnerPlans(rows, options, siteOwner) ==
    LET kept == KeptRows(rows, options, siteOwner)
        owners == KeysInOrder([i \in DOMAIN kept |-> kept[i].owner_id], <<>>)
        Of(o) == LET IsOf(t) == t.owner_id = o IN SelectSeq(kept, IsOf)
        Gaps(o) == LET IsGap(t) == ConsideredGap(t.row) IN SelectSeq(Of(o), IsGap)
    IN  [k \in DOMAIN owners |->
            [owner_id |-> owners[k],
             rep_site |-> Of(owners[k])[1].row.site_id,
             owner_total |-> Len(Of(owners[k])),
             owner_counts |-> CountItems([i \in DOMAIN Of(owners[k]) |-> Of(owners[k])[i].message]),
             owner_gap_counts |->
                 CountItems([i \in DOMAIN Gaps(owners[k]) |-> Gaps(owners[k])[i].message])]]

\* rep_site or ""
SiteOrEmpty(rep_site) == IF Truthy(rep_site) THEN rep_site ELSE <<>>

\* the rows replace_common_issues deletes
IssuesDeleted(issues, site_id, user_id, widget_id) ==
    {r \in issues :
        /\ IF Truthy(widget_id) THEN r.widget_id = widget_id ELSE r.site_id = site_id
        /\ Truthy(user_id) => r.user_id = user_id}

\* the records replace_common_issues inserts for the clusters
IssueRecords(clusters, site_id, user_id, widget_id, timestamp) ==
    {[query |-> clusters[k].canonical_question, count |-> clusters[k].total_count,
      site_id |-> site_id, captured_at |-> timestamp,
      widget_id |-> IF Truthy(widget_id) THEN widget_id ELSE NoneVal,
      user_id |-> user_id] : k \in DOMAIN clusters}

\* round(gcount / owner_total * 100, 2), in hundredths of a percent; a tie
\* goes to the even neighbour
GapRate(gcount, owner_total) ==
    LET q == (gcount * 10000) \div owner_total
        r == (gcount * 10000) % owner_total
    IN  IF owner_total = 0 THEN 0
        ELSE IF 2 * r < owner_total THEN q
        ELSE IF 2 * r > owner_total THEN q + 1
        ELSE IF q % 2 = 0 THEN q ELSE q + 1

\* f"High unanswered rate ({gcount}/{owner_total} attempts, {gap_rate}%)"
HeuristicWhy(gcount, owner_total) ==
    [kind |-> "str", v |-> <<"High unanswered rate">>, gcount |-> gcount,
     owner_total |-> owner_total, gap_rate |-> GapRate(gcount, owner_total)]

\* the gap item of a question as the heuristics make it (last_seen, and the
\* variants and sample_interactions of the metadata, are left out)
HeuristicGap(plan, item) ==
    [site_id |-> plan.rep_site, topic |-> item.q,
     gap_rate |-> GapRate(item.count, plan.owner_total),
     why |-> HeuristicWhy(item.count, plan.owner_total),
     missing |-> <<>>, recent_attempts |-> item.count, status |-> "open",
     metadata |-> [sample_question |-> item.q]]

\* answers of the enrichment call
\*   kind "none": _call_llm_flexible returned None, or raised
\*   kind "text": it returned a text; json is what json.loads makes of the
\*                text, embedded what it makes of the match of {[\s\S]*}
\*                in the text, tried when json is invalid
JsonInvalid == [kind |-> "invalid"]
NoMatch == [kind |-> "absent"]
JsonList == [kind |-> "list"]
JsonDict(d) == [kind |-> "dict", d |-> d]
JsonStr(s) == [kind |-> "str", v |-> s]

NoAnswer == [kind |-> "none"]
TextAnswer(empty, json, embedded) ==
    [kind |-> "text", empty |-> empty, json |-> json, embedded |-> embedded]

\* LmOutput of a block that takes an answer it cannot parse for an object
\* that rates the gap at 0
LmOutputDefaults(lm) ==
    IF lm.kind = "none" THEN NoAnswer
    ELSE IF ~lm.empty /\ lm.json.kind = "dict" THEN lm.json
    ELSE JsonDict([severity_percent |-> Num(0), why |-> JsonStr(<<"?">>)])

\* lm_output of the enrichment block
LmOutput(lm) ==
    IF lm.kind = "none" \/ lm.empty THEN NoAnswer
    ELSE LET lm_out == IF lm.json # JsonInvalid THEN lm.json
                       ELSE IF lm.embedded \in {NoMatch, JsonInvalid} THEN JsonDict(<<>>)
                       ELSE lm.embedded
         IN  IF lm_out.kind = "dict" THEN lm_out ELSE NoAnswer

\* the "if lm_output:" block
Enriched(gi, lm_output) ==
    IF lm_output.kind # "dict" \/ DOMAIN lm_output.d = {} THEN gi
    ELSE LET d == lm_output.d
             has(key) == key \in DOMAIN d /\ d[key].v # <<>>
             extra(key) == IF has(key) THEN key :> d[key] ELSE <<>>
         IN  [gi EXCEPT
                 !.gap_rate = IF "severity_percent" \in DOMAIN d /\ "int" \in DOMAIN d.severity_percent
                              THEN 100 * d.severity_percent.int ELSE @,
                 !.why = IF has("why") THEN d.why ELSE @,
                 !.missing = IF "missing" \in DOMAIN d /\ "list" \in DOMAIN d.missing
                             THEN d.missing.list ELSE @,
                 !.metadata = @ @@ extra("recommended_action") @@ extra("canonical_question")]

\* the gap items of an owner, in the order of owner_gap_counts
\*   lm: the answer of the enrichment call (the same for every item of a run)
GapItems(plan, options, lm) ==
    LET IsGap(it) == it.count >= options.min_count
        items == SelectSeq(plan.owner_gap_counts, IsGap)
    IN  [k \in DOMAIN items |->
            Enriched(HeuristicGap(plan, items[k]), LmOutput(lm)) @@
            [widget_id |-> options.widget_id, user_id |-> plan.owner_id]]

\* the rows of knowledge_gaps that conflict with g on (site_id, topic); a
\* NULL site_id conflicts with nothing
Conflicting(gs, g) ==
    {id \in DOMAIN gs : g.site_id # NoneVal /\ gs[id].site_id = g.site_id /\ gs[id].topic = g.topic}

\* upsert_gap, with the exception the caller swallows
\*   upsert: "ok" (the upsert on (site_id, topic) answers), "fallback" (it
\*   raises and the plain upsert is tried, which inserts) or "fail"
UpsertGap(gs, g, upsert) ==
    LET hit == Conflicting(gs, g)
        written(old) == [g EXCEPT !.widget_id = IF Truthy(g.widget_id) THEN @ ELSE old]
    IN  IF upsert = "fail" THEN gs
        ELSE IF hit = {} THEN Append(gs, written(NoneVal))
        ELSE IF upsert = "ok"
        THEN [id \in DOMAIN gs |-> IF id \in hit THEN written(gs[id].widget_id) ELSE gs[id]]
        ELSE gs

RECURSIVE UpsertGaps(_, _, _)
UpsertGaps(gs, items, upsert) ==
    IF items = <<>> THEN gs
    ELSE LET Rest(written) == UpsertGaps(written, Tail(items), upsert)
         IN  Once(UpsertGap(gs, Head(items), upsert), Rest)

\* the clusters of the questions of an owner: filtered, then
\* _cluster_questions_with_llm with what the services answer
OwnerClusters(plan, options, env) ==
    LET IsFrequent(it) == it.count >= options.min_count
        filtered == SelectSeq(plan.owner_counts, IsFrequent)
        sorted == SortDesc(filtered, ItemCount)
        asked == SubSeq(sorted, 1, IF IntOr(options.limit, 0) > 0
                                   THEN Min(Len(sorted), 2 * options.limit.int)
                                   ELSE Len(sorted))
    IN  ClusterQuestionsWithLlm(filtered, options.limit, env.client,
                                [i \in DOMAIN asked |-> EmbeddingOf(asked[i].q)],
                                env.api, env.llm).clusters

\* the body of the loop over the owners for owner k, given its clusters
\*   st: the tables, the owners done with what was inserted for each, and
\*       the gap items handed to upsert_gap
\*   env: what the services do during the run: the tiers of the clustering
\*        (client, api, llm), upsert, enrich = the answer of the enrichment
\*        call, and fault = the call that raises (none, or "feedback",
\*        "delete", "insert", "summary" at owner fault.at)
RefreshOwner(plan, k, st, clusters, options, env) ==
    LET site_id == SiteOrEmpty(plan.rep_site)
        kept == st.issues \ IssuesDeleted(st.issues, site_id, plan.owner_id, options.widget_id)
        records == IssueRecords(clusters, site_id, plan.owner_id, options.widget_id, st.now)
        raises(call) == env.fault = [call |-> call, at |-> k]
        after == [st EXCEPT !.issues = kept \cup records,
                            !.gaps = UpsertGaps(st.gaps, GapItems(plan, options, env.enrich), env.upsert),
                            !.gap_items = @ \o GapItems(plan, options, env.enrich),
                            !.inserted = Append(@, [owner_id |-> plan.owner_id, records |-> records,
                                                    total_queries |-> plan.owner_total])]
    IN  IF raises("feedback") \/ raises("delete") THEN [st EXCEPT !.outcome = "raised"]
        ELSE IF raises("insert") /\ records # {}
        THEN [st EXCEPT !.issues = kept, !.outcome = "raised"]
        ELSE IF raises("summary") THEN [after EXCEPT !.outcome = "raised"]
        ELSE after

\* the loop over the owners, from owner k on
RECURSIVE RefreshOwners(_, _, _, _, _)
RefreshOwners(plans, k, st, options, env) ==
    IF k > Len(plans) THEN [st EXCEPT !.outcome = "completed"]
    ELSE LET Continue(after) ==
                 IF after.outcome = "raised" THEN after
                 ELSE RefreshOwners(plans, k + 1, after, options, env)
             Body(clusters) == Once(RefreshOwner(plans[k], k, st, clusters, options, env), Continue)
         IN  Once(OwnerClusters(plans[k], options, env), Body)

\* refresh_most_asked_questions
\*   table: chat_turns; timestamp: the time of the run
RefreshMostAskedQuestionsCall(gs, issues, table, options, siteOwner, env, timestamp) ==
    LET rows == IterChatTurns(table, options)
        st == [gaps |-> gs, issues |-> issues, inserted |-> <<>>, gap_items |-> <<>>,
               now |-> timestamp, outcome |-> "none"]
        Loop(plans) == RefreshOwners(plans, 1, st, options, env)
    IN  IF rows = <<>> THEN [st EXCEPT !.outcome = "skipped"]
        ELSE Once(OwnerPlans(rows, options, siteOwner), Loop)

\* the topics the gap actions are asked for
GapTopics == {<<"a", "b">>}

\* the metadata of a KnowledgeGapUpdate: user_id, documents and urls, each
\* present or not
GapMetadata ==
    {u @@ d @@ l :
        u \in {<<>>, [user_id |-> OwnerA]},
        d \in {<<>>} \cup {[documents |-> f] :
                  f \in {[list |-> <<SourceD, SourceU>>], [list |-> <<SourceObj>>],
                         [scalar |-> SourceU]}},
        l \in {<<>>, [urls |-> [list |-> <<SourceD>>]]}}

\* the requests of the gap actions; only link_source reads documents and urls
GapUpdates ==
    {p \in [gap_topic : GapTopics, action : {"mark_resolved", "ignore", "link_source"},
            metadata : GapMetadata] :
        p.action # "link_source" => DOMAIN p.metadata \subseteq {"user_id"}}

\* POST /analytics/knowledge-gaps/actions
UpdateKnowledgeGap ==
    \E payload \in GapUpdates, selectOk, writeOk \in BOOLEAN :
        /\ lastAnalytics = NoRet
        /\ gapActions < MaxGapActions
        \* a call that is not made has no outcome to choose
        /\ ~selectOk => writeOk
        /\ \E matching \in {MatchingGaps(gaps, payload.gap_topic, MetadataUserId(payload.metadata))} :
            \E read \in IF selectOk /\ matching # {} THEN matching ELSE {0} :
                \E result \in {UpdateKnowledgeGapCall(gaps, payload, read, selectOk, writeOk)} :
                    /\ Len(result.gaps) <= MaxGaps
                    /\ \A id \in DOMAIN result.gaps :
                           "linked_sources" \in DOMAIN result.gaps[id].metadata =>
                               Len(result.gaps[id].metadata.linked_sources.list) <= MaxLinked
                    /\ gaps' = result.gaps
                    /\ lastAnalytics' = [kind |-> "gap_update", payload |-> payload,
                                         read |-> read, status |-> result.status]
                    /\ UNCHANGED <<clusterInput, clusterRuns, lastCluster, commonIssues, refreshes>>
                    /\ gapActions' = gapActions + 1
                    /\ UNCHANGED <<ingestVars, authVars, queryVars>>

TurnRow(user_id, site_id, widget_id, user_message, status, assistant_message) ==
    [user_id |-> user_id, site_id |-> site_id, widget_id |-> widget_id,
     user_message |-> user_message, status |-> status,
     assistant_message |-> assistant_message]

\* contents of chat_turns, newest first: one gap; a question asked twice and
\* answered once; two questions of one owner on two sites; two owners; a row
\* without user_id and a blank message
ChatTurnTables ==
    LET t1 == TurnRow(OwnerA, SiteS1, WidgetW1, <<"a", "b">>, "gap", NoneVal)
        t2 == TurnRow(OwnerA, SiteS1, NoneVal, <<"a", "b", " ">>, "resolved", LongReply)
        t3 == TurnRow(OwnerA, SiteS2, WidgetW1, <<"c">>, "resolved", ShortReply)
        t4 == TurnRow(OwnerB, SiteS1, WidgetW1, <<"c">>, "gap", NoneVal)
        t5 == TurnRow(NoneVal, SiteS1, NoneVal, <<"a", "b">>, "resolved", UnsureReply)
        t6 == TurnRow(OwnerA, SiteS1, WidgetW1, <<" ">>, "gap", NoneVal)
    IN  {<<t1>>, <<t1, t2>>, <<t3, t1>>, <<t4, t1>>, <<t5, t6>>}

\* RefreshOptions as POST /analytics/run builds them (limit 20, min_count 1)
\* and as the command line may
RefreshOptionsOf(site_id, widget_id, user_id, limit, min_count) ==
    [site_id |-> site_id, widget_id |-> widget_id, user_id |-> user_id,
     limit |-> limit, min_count |-> min_count]

RefreshOptionSets ==
    {RefreshOptionsOf(NoneVal, NoneVal, NoneVal, Num(DefaultLimit), 1),
     RefreshOptionsOf(NoneVal, WidgetW1, NoneVal, Num(DefaultLimit), 1),
     RefreshOptionsOf(SiteS1, NoneVal, OwnerA, Num(DefaultLimit), 1),
     RefreshOptionsOf(NoneVal, NoneVal, NoneVal, Num(1), 1),
     RefreshOptionsOf(NoneVal, NoneVal, NoneVal, Num(DefaultLimit), 2)}

\* what the services do during a run
NoFault == [call |-> "none", at |-> 0]

RefreshEnv(c, upsert, fault) ==
    [client |-> c.client, api |-> c.api, llm |-> c.llm, upsert |-> upsert, fault |-> fault,
     enrich |-> NoAnswer]

\* the tiers of the clustering: no client (fuzzy), embeddings, and an LLM
\* answer without clusters after the embeddings failed
Cascades ==
    {[client |-> FALSE, api |-> "client", llm |-> [kind |-> "raise"]],
     [client |-> TRUE, api |-> "client", llm |-> [kind |-> "raise"]],
     [client |-> TRUE, api |-> "fail", llm |-> [kind |-> "no_json"]]}

RefreshEnvs ==
    {RefreshEnv(c, "ok", f) :
        c \in Cascades,
        f \in {NoFault} \cup [call : {"feedback", "delete", "insert", "summary"}, at : 1..2]}

\* the runs that matter to knowledge_gaps: the tables with gaps, the options
\* of POST /analytics/run, and each outcome of upsert_gap
GapTurnTables == {t \in ChatTurnTables : Len(t) = 1 \/ t[1].site_id = SiteS2}

GapRefreshOptions ==
    {o \in RefreshOptionSets : o.limit = Num(DefaultLimit) /\ o.min_count = 1 /\ o.site_id = NoneVal}

GapRefreshEnvs ==
    {RefreshEnv(c, u, NoFault) : c \in {c \in Cascades : ~c.client},
                                 u \in {"ok", "fallback", "fail"}}

\* POST /analytics/run, or the command line
RefreshMostAskedQuestions(tables, optionSets, envs) ==
    \E table \in tables, options \in optionSets,
       siteOwner \in {NoneVal, OwnerA}, env \in envs :
        /\ lastAnalytics = NoRet
        /\ refreshes < MaxRefreshes
        \* a call that is not made has no outcome to choose
        /\ (\A i \in DOMAIN table : Truthy(table[i].user_id) \/ ~Truthy(table[i].site_id))
               => siteOwner = NoneVal
        /\ \E result \in {RefreshMostAskedQuestionsCall(gaps, commonIssues, table, options,
                                                         siteOwner, env, refreshes + 1)} :
            /\ env.fault.call # "none" => result.outcome = "raised"
            /\ result.gap_items = <<>> => env.upsert = "ok"
            /\ Len(result.gaps) <= MaxGaps
            /\ gaps' = result.gaps
            /\ commonIssues' = result.issues
            /\ refreshes' = refreshes + 1
            /\ lastAnalytics' = [kind |-> "refresh", options |-> options,
                                 table |-> table, siteOwner |-> siteOwner,
                                 enrich |-> env.enrich,
                                 outcome |-> result.outcome, inserted |-> result.inserted,
                                 gap_items |-> result.gap_items]
            /\ UNCHANGED <<clusterInput, clusterRuns, lastCluster, gapActions>>
            /\ UNCHANGED <<ingestVars, authVars, queryVars>>

\* the response of an analytics request is taken
AnalyticsRespond ==
    /\ lastAnalytics # NoRet
    /\ lastAnalytics' = NoRet
    /\ UNCHANGED <<clusterInput, clusterRuns, lastCluster, gaps, commonIssues, refreshes, gapActions>>
    /\ UNCHANGED <<ingestVars, authVars, queryVars>>

InitAnalytics ==
    /\ InitIngestVars
    /\ InitAuthIdle
    /\ InitQueryIdle
    /\ InitAnalyticsIdle

NextGaps ==
    \/ UpdateKnowledgeGap
    \/ RefreshMostAskedQuestions(GapTurnTables, GapRefreshOptions, GapRefreshEnvs)
    \/ AnalyticsRespond

SpecGaps == InitAnalytics /\ [][NextGaps]_vars

NextIssues ==
    \/ RefreshMostAskedQuestions(ChatTurnTables, RefreshOptionSets, RefreshEnvs)
    \/ AnalyticsRespond

SpecIssues == InitAnalytics /\ [][NextIssues]_vars

\* the row of chat_turns that _record_chat_turn inserted, as the select of
\* _iter_chat_turns returns it: the insert gives the row an owner_id and no
\* site_id, user_id or widget_id
SelectedTurn(turn) ==
    TurnRow(NoneVal, NoneVal, NoneVal, turn.user_message, turn.status, turn.assistant_message)

\* chat_turns as widget_chat has filled it, in each order
RecordedTurnTables ==
    LET n == BagCardinality(chatTurns)
        orders == {s \in [1..n -> DOMAIN chatTurns] :
                      \A r \in DOMAIN chatTurns : Cardinality({i \in 1..n : s[i] = r}) = chatTurns[r]}
    IN  {[i \in 1..n |-> SelectedTurn(s[i])] : s \in orders}

\* a run over everything, and one scoped to owner A
TurnOptions ==
    {RefreshOptionsOf(NoneVal, NoneVal, user_id, Num(DefaultLimit), 1) : user_id \in {NoneVal, OwnerA}}

TurnEnvs == {RefreshEnv(c, "ok", NoFault) : c \in {c \in Cascades : ~c.client}}

NextTurns ==
    \/ CreateWidgetToken
    \/ WidgetChat
    \/ Respond
    \/ RefreshMostAskedQuestions(RecordedTurnTables, TurnOptions, TurnEnvs)
    \/ AnalyticsRespond

\* clients of a widget chat, and analytics runs read what the chats recorded
SpecTurns == InitChat /\ [][NextTurns]_vars

\* rows start..end of an ordered result, counted from 0, both ends included,
\* without the last row of the range
RangeExclusive(rows, start, end) ==
    [i \in 1..(Min(end, Len(rows)) - start) |-> rows[start + i]]

\* .range(start, end) on an ordered result: rows start..end counted from 0,
\* both ends included, as many of them as there are
Range(rows, start, end) ==
    [i \in 1..(Min(end + 1, Len(rows)) - start) |-> rows[start + i]]

\* the generator of _iter_chat_turns before its first query
IterBegin(table, options, page_size) ==
    [kind |-> "iter", table |-> table, options |-> options, page_size |-> page_size,
     start |-> 0, yielded |-> <<>>, pages |-> 0, pc |-> "query"]

\* one pass of the while loop of _iter_chat_turns: a page is queried and its
\* rows are yielded; the loop ends on an empty or a short page
\*   raises: query.execute() raises
IterPage(it, raises) ==
    IF raises THEN [it EXCEPT !.pc = "raised"]
    ELSE LET end == it.start + it.page_size - 1
             data == Range(IterChatTurns(it.table, it.options), it.start, end)
         IN  IF data = <<>> THEN [it EXCEPT !.pc = "done", !.pages = @ + 1]
             ELSE [it EXCEPT !.yielded = @ \o data,
                             !.pages = @ + 1,
                             !.pc = IF Len(data) < it.page_size THEN "done" ELSE "query",
                             !.start = IF Len(data) < it.page_size THEN @ ELSE @ + it.page_size]

\* chat_turns of up to MaxRows rows of two owners, newest first, each row with
\* a message of its own
PageTables ==
    UNION {{[i \in 1..n |-> TurnRow(u[i], SiteS1, WidgetW1, Repeat("q", i), "resolved", LongReply)]
               : u \in [1..n -> Owners]} : n \in 0..MaxRows}

PageSizes == 1..MaxPageSize

\* a consumer starts iterating over the chat turns
IterChatTurnsStart ==
    \E table \in PageTables, options \in TurnOptions, page_size \in PageSizes :
        /\ lastAnalytics = NoRet
        /\ refreshes = 0
        /\ refreshes' = refreshes + 1
        /\ lastAnalytics' = IterBegin(table, options, page_size)
        /\ UNCHANGED <<clusterInput, clusterRuns, lastCluster, gaps, commonIssues, gapActions>>
        /\ UNCHANGED <<ingestVars, authVars, queryVars>>

\* the consumer asks for the rows of the next page
IterChatTurnsPage ==
    \E raises \in BOOLEAN :
        /\ "kind" \in DOMAIN lastAnalytics
        /\ lastAnalytics.kind = "iter"
        /\ lastAnalytics.pc = "query"
        /\ lastAnalytics' = IterPage(lastAnalytics, raises)
        /\ UNCHANGED <<clusterInput, clusterRuns, lastCluster, gaps, commonIssues, refreshes, gapActions>>
        /\ UNCHANGED <<ingestVars, authVars, queryVars>>

NextPages ==
    \/ IterChatTurnsStart
    \/ IterChatTurnsPage

SpecPages == InitAnalytics /\ [][NextPages]_vars

\* the consumer of the generator is a for loop of a synchronous run: it asks
\* for the next page as long as the generator has not ended
SpecPagesLive == SpecPages /\ WF_vars(IterChatTurnsPage)

\* assistant messages around the limits of considered_gap: absent, empty,
\* blank, 39 characters, 39 characters between two blanks, 40 characters, and
\* replies of 40 characters or more with a phrase of low_conf_phrases at the
\* start and, in capitals, in the middle
PaddedReply == <<" ">> \o Repeat("x", 39) \o <<" ">>
UnableReply == Repeat("x", 20) \o <<"U", "N", "A", "B", "L", "E", " ", "T", "O">> \o Repeat("x", 20)
VoteReplies ==
    {NoneVal, <<>>, <<" ", " ">>, ShortReply, Repeat("x", 39), PaddedReply, LongReply,
     UnsureReply, UnableReply}

\* contents of chat_turns for the gap votes: one row with each status and
\* reply; a question asked two and three times; a row whose owner is that of
\* its site, and a row with a blank question
VoteTables ==
    LET q == <<"a", "b">>
        row(status, reply) == TurnRow(OwnerA, SiteS1, NoneVal, q, status, reply)
    IN  {<<row(status, reply)>> : status \in {"gap", "resolved"}, reply \in VoteReplies} \cup
        {<<row("resolved", LongReply), row("resolved", ShortReply)>>,
         <<row("gap", NoneVal), row("resolved", LongReply), row("resolved", UnsureReply)>>,
         <<TurnRow(NoneVal, SiteS1, NoneVal, q, "resolved", ShortReply),
           TurnRow(OwnerA, SiteS1, NoneVal, <<" ">>, "gap", NoneVal)>>}

VoteOptions ==
    {o \in RefreshOptionSets : o.limit = Num(DefaultLimit) /\ o.site_id = NoneVal /\ o.widget_id = NoneVal}

\* answers of the enrichment call: none; an empty text; prose; prose with
\* broken braces; a JSON list; an object amid prose; an object; the empty
\* object; an object whose severity is not a number; objects whose severity
\* is above 100 and below 0
EnrichAnswers ==
    LET full == [severity_percent |-> Num(80), why |-> JsonStr(<<"w">>),
                 missing |-> [list |-> <<"m">>], recommended_action |-> JsonStr(<<"r">>)]
        partial == [severity_percent |-> JsonStr(<<"8">>), why |-> JsonStr(<<>>)]
        severity(n) == [severity_percent |-> Num(n)]
    IN  {NoAnswer,
         TextAnswer(FALSE, JsonDict(severity(150)), NoMatch),
         TextAnswer(FALSE, JsonDict(severity(-5)), NoMatch),
         TextAnswer(TRUE, JsonInvalid, NoMatch),
         TextAnswer(FALSE, JsonInvalid, NoMatch),
         TextAnswer(FALSE, JsonInvalid, JsonInvalid),
         TextAnswer(FALSE, JsonList, NoMatch),
         TextAnswer(FALSE, JsonInvalid, JsonDict(full)),
         TextAnswer(FALSE, JsonDict(full), NoMatch),
         TextAnswer(FALSE, JsonDict(<<>>), NoMatch),
         TextAnswer(FALSE, JsonDict(partial), NoMatch)}

\* the runs of the gap votes: an OpenAI client is configured, no call of the
\* run raises, and the enrichment call gives each of its answers
EnrichEnvs ==
    {[RefreshEnv(c, "ok", NoFault) EXCEPT !.enrich = a] :
        c \in {c \in Cascades : c.client /\ c.api = "client"}, a \in EnrichAnswers}

NextVotes ==
    \/ RefreshMostAskedQuestions(VoteTables, VoteOptions, EnrichEnvs)
    \/ AnalyticsRespond

SpecVotes == InitAnalytics /\ [][NextVotes]_vars

----------------------------------------------------------------------------
(* Claims about ingestion *)

\* C1 (as claimed): a path that an earlier batch run ingested with 'success'
\* is reported 'skipped' by every later batch run with force_reprocess=False
\* that lists it, and that run adds no chunk for it
C1_SecondBatchSkips ==
    (batchRet.status = "completed" /\ ~batchRet.force) =>
        \A i \in DOMAIN batchRet.results :
            batchRet.results[i].file_path \in batchRet.prior =>
                /\ batchRet.results[i].status = "skipped"
                /\ batchRet.results[i].wrote = 0

\* C10: a run of process_document_by_path in which a step failed returns
\* 'error', has written no chunk, and leaves the ledger row of its
\* document_id at 'error' if its ledger write succeeded
C10_FailedRunStoresNothing ==
    (ret.status # "none" /\ ret.cause # "none") =>
        /\ ret.status = "error"
        /\ ret.wrote = 0
        /\ ret.ledgerOk => ledger[ret.document_id] = [status |-> "error", chunks_count |-> 0]

\* C10 witness: the embedding call of a run raised while the collection
\* already held chunks of the document, and the 'error' mark was written
C10_Witness ==
    /\ ret.status = "error"
    /\ ret.cause = "embed"
    /\ ret.ledgerOk
    /\ BagCardinality(PointsOf(store, ret.document_id)) > 0

\* C11 (as claimed): a run of process_document_by_path returns 'success',
\* and marks the ledger 'processed' with chunks_count = n, only if its n
\* chunks were written to the collection; a run whose upsert failed returns
\* 'error' and does not mark the ledger 'processed'
C11_SuccessOnlyIfStored ==
    ret.status \in {"success", "error"} =>
        /\ ret.status = "success" => ret.wrote = ret.chunks_created
        /\ (ret.ledgerOk /\ ledger[ret.document_id].status = "processed") =>
                ret.wrote = ledger[ret.document_id].chunks_count

\* C12 (as claimed): when the ledger holds a row for the document_id and is
\* read, is_document_processed answers true exactly if the row's status is
\* 'processed' and makes no Qdrant call; it probes Qdrant when there is no row
C12_LedgerIsAuthoritative ==
    \A file_path \in Bucket, probeOk \in BOOLEAN :
        LET row == ledger[DocumentId(file_path)]
        IN  IF row.status # "absent"
            THEN /\ IsDocumentProcessed(file_path, TRUE, probeOk) <=> row.status = "processed"
                 /\ IsDocumentProcessedProbes(file_path, TRUE) = 0
            ELSE IsDocumentProcessedProbes(file_path, TRUE) = 1

----------------------------------------------------------------------------
(* Claims about retrieve and generate_answer *)

Retrieved == "result" \in DOMAIN lastRetrieve /\ lastRetrieve.result.outcome = "ok"

\* C2: retrieve with owner_id = A, with any widget_id or none, returns no
\* chunk whose payload owner_id is another owner
C2_TenantIsolation ==
    (Retrieved /\ lastRetrieve.owner_id \in Owners) =>
        \A p \in DOMAIN lastRetrieve.result.docs :
            p.owner_id \notin Owners \ {lastRetrieve.owner_id}

\* C2 witness: a retrieve for owner A returned chunks while the collection
\* held a chunk of owner B
C2_Witness ==
    /\ Retrieved
    /\ lastRetrieve.owner_id = OwnerA
    /\ BagCardinality(lastRetrieve.result.docs) > 0
    /\ \E p \in DOMAIN store : p.owner_id = OwnerB

OwnerPoints(st, owner_id) == [p \in {q \in DOMAIN st : q.owner_id = owner_id} |-> st[p]]

WidgetTagged(st, widget_id) == \E p \in DOMAIN st : p.widget_id = widget_id

WidgetRetrieved ==
    /\ Retrieved
    /\ ~QueryBlank(lastRetrieve.query)
    /\ Truthy(lastRetrieve.owner_id)
    /\ Truthy(lastRetrieve.widget_id)

\* C3 (as claimed): while no stored chunk carries the widget_id, what retrieve
\* returns is top_k of all the chunks of the owner; once a stored chunk
\* carries the widget_id, every chunk retrieve returns carries the owner_id
\* and the widget_id
C3_WidgetFallback ==
    /\ (WidgetRetrieved /\ ~WidgetTagged(store, lastRetrieve.widget_id)) =>
        lastRetrieve.result.docs \in
            {d \in SubBag(OwnerPoints(store, lastRetrieve.owner_id)) :
                BagCardinality(d) = Min(lastRetrieve.top_k,
                                        BagCardinality(OwnerPoints(store, lastRetrieve.owner_id)))}
    /\ (WidgetRetrieved /\ WidgetTagged(store, lastRetrieve.widget_id)) =>
        \A p \in DOMAIN lastRetrieve.result.docs :
            p.owner_id = lastRetrieve.owner_id /\ p.widget_id = lastRetrieve.widget_id

\* C8: generate_answer with no documents returns the fixed reply and does not
\* call the completion service
C8_EmptyContextGuard ==
    ("result" \in DOMAIN lastAnswer /\ BagCardinality(lastAnswer.context_docs) = 0) =>
        /\ lastAnswer.result.outcome = "ok"
        /\ lastAnswer.result.answer = Fallback
        /\ lastAnswer.result.completionCalls = 0

\* C8 witness: generate_answer was called without documents while the
\* collection was not empty
C8_Witness ==
    /\ "result" \in DOMAIN lastAnswer
    /\ BagCardinality(lastAnswer.context_docs) = 0
    /\ lastAnswer.query = <<"q">>
    /\ lastAnswer.temperature = 10
    /\ BagCardinality(store) > 0

\* C9: retrieve with an empty or whitespace-only query returns nothing and
\* makes no embedding call, no probe and no search
C9_BlankQuery ==
    ("result" \in DOMAIN lastRetrieve /\ \A i \in 1..Len(lastRetrieve.query) : IsSpace(lastRetrieve.query[i])) =>
        /\ lastRetrieve.result.outcome = "ok"
        /\ lastRetrieve.result.docs = EmptyBag
        /\ lastRetrieve.result.embedCalls = 0
        /\ lastRetrieve.result.probeCalls = 0
        /\ lastRetrieve.result.searchCalls = 0

\* C9 witness: a whitespace-only query for an owner and a widget whose chunks
\* the collection holds
C9_Witness ==
    /\ "result" \in DOMAIN lastRetrieve
    /\ lastRetrieve.query = <<" ", "\t">>
    /\ \E p \in DOMAIN store :
        p.owner_id = lastRetrieve.owner_id /\ p.widget_id = lastRetrieve.widget_id

----------------------------------------------------------------------------
(* Claims about widget tokens and widget chat *)

\* a widget_chat request that carried a token create_widget_token minted
ChatWithToken ==
    /\ "result" \in DOMAIN lastChat
    /\ lastChat.auth.kind = "bearer"
    /\ lastChat.auth.signed

\* the widget's row is what it was when the token was minted, as far as the
\* validation looks at it
WidgetAsIssued(tk) ==
    /\ tk.widget_id \in DOMAIN widgets
    /\ widgets[tk.widget_id] # NoWidget
    /\ widgets[tk.widget_id].owner_id = tk.owner_id

\* C4: a token with exp = iat + 900 passes the token validation of
\* widget_chat at iat + 899, and the whole validation if the widget's record
\* is unchanged and is read; at iat + 901 it is rejected with 401
C4_TokenLifetime ==
    (ChatWithToken /\ lastChat.auth.token.exp = lastChat.auth.token.iat + 900) =>
        /\ now = lastChat.auth.token.iat + 899 =>
            /\ lastChat.result.detail # "Invalid authorization token"
            /\ (lastChat.lookupOk /\ WidgetAsIssued(lastChat.auth.token)) =>
                    lastChat.result.status \notin {400, 401}
        /\ now = lastChat.auth.token.iat + 901 =>
            /\ lastChat.result.status = 401
            /\ lastChat.result.detail = "Invalid authorization token"

\* C4 witness: a chat answered 899 seconds after its token was minted for 900
C4_Witness ==
    /\ ChatWithToken
    /\ lastChat.auth.token.exp = lastChat.auth.token.iat + 900
    /\ now = lastChat.auth.token.iat + 899
    /\ lastChat.result.status = 200

\* C5: a signed, unexpired token whose owner_id is not the owner_id of the
\* widget's record is rejected with 401, and widget_chat makes no retrieval
\* call, no completion call and no chat-turn write
C5_OwnerMismatchRejected ==
    (/\ ChatWithToken
     /\ lastChat.auth.token.iat <= now /\ now < lastChat.auth.token.exp
     /\ Truthy(lastChat.auth.token.owner_id)
     /\ lastChat.auth.token.widget_id \in DOMAIN widgets
     /\ widgets[lastChat.auth.token.widget_id] # NoWidget
     /\ widgets[lastChat.auth.token.widget_id].owner_id # lastChat.auth.token.owner_id) =>
        /\ lastChat.result.status = 401
        /\ lastChat.result.embedCalls = 0
        /\ lastChat.result.probeCalls = 0
        /\ lastChat.result.searchCalls = 0
        /\ lastChat.result.completionCalls = 0
        /\ lastChat.result.turns = <<>>

\* C5 witness: the widget went from owner A to owner B after the token was
\* minted, the record was read and the token had not expired
C5_Witness ==
    /\ ChatWithToken
    /\ now < lastChat.auth.token.exp
    /\ lastChat.lookupOk
    /\ lastChat.auth.token.owner_id = OwnerA
    /\ lastChat.auth.token.widget_id \in DOMAIN widgets
    /\ widgets[lastChat.auth.token.widget_id] # NoWidget
    /\ widgets[lastChat.auth.token.widget_id].owner_id = OwnerB
    /\ lastChat.request.query = <<"q">>

\* the widget row a token request names, NoWidget if there is none
RequestedWidget == LookupWidget(widgets, lastToken.body.widget_id, TRUE)

\* the Origin header is one of the row's allowed_origins, verbatim
OriginVerbatim(w) ==
    /\ lastToken.origin # NoneVal
    /\ \E i \in 1..Len(w.allowed_origins) : w.allowed_origins[i] = lastToken.origin

\* the HMAC of the presented secret is the row's secret_hash
SecretHashed(w) ==
    /\ Truthy(lastToken.x_widget_secret)
    /\ Hmac(EmbedSecret, lastToken.x_widget_secret) = w.secret_hash

\* the row has no secret_hash and the presented secret is its plaintext secret
SecretLegacy(w) ==
    /\ Truthy(lastToken.x_widget_secret)
    /\ ~Truthy(w.secret_hash)
    /\ lastToken.x_widget_secret = w.secret

C7_DefaultLifetime ==
    ("result" \in DOMAIN lastToken
     /\ lastToken.result.status = 200
     /\ "expires_in" \notin DOMAIN lastToken.body) =>
        lastToken.result.token.exp - lastToken.result.token.iat = 900

\* C19 (as claimed): a widget_chat request that returns an answer has
\* appended exactly one row to chat_turns, with the validated owner_id, the
\* query, the answer, and status 'resolved' for a non-empty answer and 'gap'
\* for an empty one
C19_OneTurnPerAnswer ==
    ("result" \in DOMAIN lastChat /\ lastChat.result.status = 200) =>
        /\ Len(lastChat.result.turns) = 1
        /\ lastChat.result.turns[1].owner_id = lastChat.result.owner_id
        /\ lastChat.result.turns[1].user_message = lastChat.request.query
        /\ lastChat.result.turns[1].assistant_message = lastChat.result.answer
        /\ lastChat.result.turns[1].status =
                IF lastChat.result.answer # <<>> THEN "resolved" ELSE "gap"

\* C17 (as claimed): every point of the collection carries a non-empty
\* top-level owner_id
C17_EveryChunkHasOwner ==
    \A p \in BagToSet(store) : Truthy(p.owner_id)

\* C18: the points one ingestion adds to the collection have the
\* chunk_index values 0..n-1, each once and in the order of the chunks, and
\* each has chunk_count n, for the n >= 1 points added
C18_ChunkIndexes ==
    [][store' # store =>
        LET new == store' (-) store
            n == BagCardinality(new)
        IN  /\ n >= 1
            /\ \A p \in BagToSet(new) :
                    /\ new[p] = 1
                    /\ p.chunk_index = p.text - 1
                    /\ p.chunk_count = n
            /\ {p.chunk_index : p \in BagToSet(new)} = 0..(n - 1)]_vars

\* C18 witness: a run has stored the two chunks of its document
C18_Witness ==
    /\ ret.status = "success"
    /\ ret.chunks_created = 2
    /\ ret.wrote = 2
    /\ {p.chunk_index : p \in BagToSet(PointsOf(store, ret.document_id))} = {0, 1}

----------------------------------------------------------------------------
(* Claims about the clustering of questions *)

C16_CascadeEndsInFuzzy ==
    ("result" \in DOMAIN lastCluster /\ lastCluster.question_counts # <<>>) =>
        LET limit == lastCluster.limit
            sorted_items == SortDesc(lastCluster.question_counts, ItemCount)
            top_items == SubSeq(sorted_items, 1,
                                IF IntOr(limit, 0) > 0
                                THEN Min(Len(sorted_items), 2 * limit.int)
                                ELSE Len(sorted_items))
        IN  (/\ lastCluster.client
             /\ lastCluster.api \in {"fail", "short"}
             /\ lastCluster.llm.kind \in {"raise", "no_json", "not_list", "not_dicts"}) =>
                /\ lastCluster.result.clusters = ClusterUsingFuzzy(top_items, limit)
                /\ lastCluster.result.clusters # <<>>

----------------------------------------------------------------------------
(* Claims about knowledge gaps and common issues *)

\* the step is a run of refresh_most_asked_questions
RefreshStep == "kind" \in DOMAIN lastAnalytics' /\ lastAnalytics'.kind = "refresh"

\* the run of the step handed a gap of the row's owner and topic to upsert_gap
DetectedAgain(row) ==
    \E k \in DOMAIN lastAnalytics'.gap_items :
        /\ lastAnalytics'.gap_items[k].user_id = row.user_id
        /\ lastAnalytics'.gap_items[k].topic = row.topic

\* C13: a knowledge-gap row whose status update_knowledge_gap set to
\* 'resolved', 'ignored' or 'in_progress' still has that status after a run of
\* refresh_most_asked_questions that detects a gap for its owner and topic
\* again.
C13_StatusSurvivesRefresh ==
    [][RefreshStep =>
          \A id \in DOMAIN gaps :
              (gaps[id].status \in {"resolved", "ignored", "in_progress"} /\ DetectedAgain(gaps[id]))
                  => gaps'[id].status = gaps[id].status]_vars

\* the step is an accepted link_source request that read a row holding a
\* linked_sources list
LinkStep ==
    /\ "kind" \in DOMAIN lastAnalytics'
    /\ lastAnalytics'.kind = "gap_update"
    /\ lastAnalytics'.payload.action = "link_source"
    /\ lastAnalytics'.status = 200
    /\ lastAnalytics'.read # 0
    /\ "linked_sources" \in DOMAIN gaps[lastAnalytics'.read].metadata

\* s without the entries that occurred earlier in it
WithoutLaterDuplicates(s) ==
    LET keep == {i \in DOMAIN s : \A j \in 1..(i - 1) : s[j] # s[i]}
    IN  [k \in 1..Cardinality(keep) |->
            s[CHOOSE i \in keep : Cardinality({j \in keep : j <= i}) = k]]

\* the entries a documents or urls field of a request stands for
FieldItems(field) ==
    IF "list" \in DOMAIN field THEN field.list
    ELSE IF "scalar" \in DOMAIN field THEN <<field.scalar>>
    ELSE <<>>

\* C14: link_source on a row whose metadata holds the list L, with documents
\* D and urls U, stores L, D, U in this order without the later duplicates:
\* every entry of L is kept, no entry occurs twice, and the same request
\* applied to the result stores the same list.
C14_LinkSourceMerges ==
    [][LinkStep =>
          LET read == lastAnalytics'.read
              metadata == lastAnalytics'.payload.metadata
              L == gaps[read].metadata.linked_sources.list
              D == FieldItems(Get(metadata, "documents"))
              U == FieldItems(Get(metadata, "urls"))
              stored == gaps'[read].metadata.linked_sources.list
          IN  /\ stored = WithoutLaterDuplicates(L \o D \o U)
              /\ \A i \in DOMAIN L : \E j \in DOMAIN stored : stored[j] = L[i]
              /\ \A i, j \in DOMAIN stored : stored[i] = stored[j] => i = j
              /\ LinkedSources(gaps'[read].metadata, metadata) = stored]_vars

\* C20: after a run of refresh_most_asked_questions got through an owner, the
\* rows of analytics_common_issues of that owner are the rows this run
\* inserted for the owner, and they are no more than the limit of the run.
C20_IssuesReplaced ==
    ("kind" \in DOMAIN lastAnalytics /\ lastAnalytics.kind = "refresh") =>
        \A k \in DOMAIN lastAnalytics.inserted :
            LET mine == {r \in commonIssues : r.user_id = lastAnalytics.inserted[k].owner_id}
            IN  /\ mine = lastAnalytics.inserted[k].records
                /\ Cardinality(mine) <= lastAnalytics.options.limit.int

----------------------------------------------------------------------------
(* Claims about overlapping and repeated ingestion *)

\* both single-document runs wait for their embeddings, for the same path
BothEmbedding ==
    /\ run["manual"].pc = "embedding"
    /\ run["webhook"].pc = "embedding"
    /\ run["manual"].path = run["webhook"].path

\* the ledger status of the path after the two waiting runs have finished,
\* the run of caller `first` before the other one; every ledger write and
\* every upsert succeeds
\*   em[c]: the embedding service answers the run of caller c, or raises
StatusAfterBoth(first, em) ==
    LET second == CHOOSE c \in Callers : c # first
        e1 == PdpEnd(ledger, store, first, run[first].path, run[first].n, em[first], TRUE, TRUE)
        e2 == PdpEnd(e1.ledger, e1.store, second, run[second].path, run[second].n,
                     em[second], TRUE, TRUE)
    IN  e2.ledger[DocumentId(run[first].path)].status

\* C21 (as claimed): when a manual and a webhook-triggered run of
\* process_document_by_path for the same path overlap, the ledger status of
\* the document after both have finished is the same whichever of them
\* finishes first, given the outcome (success or error) of each run
C21_FinalStatusDeterministic ==
    BothEmbedding =>
        \A em \in [Callers -> {"ok", "raise"}] :
            StatusAfterBoth("manual", em) = StatusAfterBoth("webhook", em)

\* the chunks stored under a document_id
ChunkCount(st, document_id) == BagCardinality(PointsOf(st, document_id))

\* the step is the successful end of a run of caller c that ingested its
\* path again, on its own (no other run is in flight): the collection held
\* the chunks of an earlier ingestion of the path, as many as this run made
ReingestEnd(c) ==
    /\ run[c].pc = "embedding"
    /\ run'[c].pc = "idle"
    /\ \A o \in Callers \ {c} : run[o].pc = "idle" /\ run'[o].pc = "idle"
    /\ ret'.status = "success"
    /\ ChunkCount(store, DocumentId(run[c].path)) = run[c].n

\* C22 (as claimed): ingesting the same path again through
\* process_document_by_path, after an ingestion that stored its chunks,
\* leaves the number of chunks stored under its document_id as it was
C22_ReingestKeepsCount ==
    [][\A c \in Callers :
          ReingestEnd(c) =>
              ChunkCount(store', DocumentId(run[c].path)) =
                  ChunkCount(store, DocumentId(run[c].path))]_vars

\* a run of process_document_by_path for a path ended with 'success' and
\* stored its chunks
StoredRun == ret.status = "success" /\ "peer" \in DOMAIN ret /\ ret.wrote > 0

\* C23: ingestion of one path is not mutually exclusive. A run that ends with
\* 'success' and stores its chunks adds them to the chunks its document_id
\* held when it began and to the chunks that overlapping runs for the same
\* path stored meanwhile: the document_id holds the chunks of all of them
C23_OverlappingRunsBothStore ==
    StoredRun =>
        ChunkCount(store, ret.document_id) >= ret.had + ret.peer + ret.chunks_created

\* C23 witness: the manual run for 'A/d' began when nothing was stored for
\* the path; while it waited for its embeddings a webhook-triggered run for
\* 'A/d', having passed the processed check, stored one chunk; the manual
\* run then stored its chunk, and the document_id holds both
C23_Witness ==
    /\ StoredRun
    /\ ret.caller = "manual"
    /\ ret.file_path = PathA1
    /\ ret.had = 0
    /\ ret.peer = 1
    /\ ret.wrote = 1
    /\ ChunkCount(store, ret.document_id) = 2

----------------------------------------------------------------------------
(* Claims about process_all_documents *)

\* a document of the batch in flight got the result 'error'
ErrorInBatch ==
    /\ batch.pc # "idle"
    /\ \E i \in DOMAIN batch.results : batch.results[i].status = "error"

\* a returned batch result is 'completed' and has one entry per listed file,
\* in the order of the listing, each the result of an ingestion or 'skipped';
\* a file is skipped only in a run without force_reprocess and only if it is
\* one that is_document_processed finds processed
OneEntryPerFile ==
    batchRet.status = "completed" =>
        LET items == BatchItems(batchRet.list_path)
        IN  /\ Len(batchRet.results) = Len(items)
            /\ \A i \in DOMAIN items :
                /\ batchRet.results[i].file_path = items[i]
                /\ batchRet.results[i].status \in {"skipped", "success", "error"}
                /\ batchRet.results[i].status = "skipped" =>
                        ~batchRet.force /\ TRUE \in CheckAnswers(items[i])

\* C24: in process_all_documents a document whose ingestion returns 'error'
\* does not stop the batch: the batch goes on to return 'completed', and a
\* 'completed' result has one entry per listed file, each skipped or ingested
C24_ErrorDoesNotStopBatch ==
    /\ []OneEntryPerFile
    /\ ErrorInBatch ~> (batchRet.status = "completed")

\* C24 witness: a batch returned 'completed' with a file ingested with
\* 'success' after a file whose ingestion returned 'error'
C24_Witness ==
    /\ batchRet.status = "completed"
    /\ \E i, j \in DOMAIN batchRet.results :
        /\ i < j
        /\ batchRet.results[i].status = "error"
        /\ batchRet.results[j].status = "success"

\* the listed entries that have an id and whose name does not end with the
\* empty-folder placeholder
ListedFiles(list_path) ==
    LET all_files == ListEntries(list_path)
    IN  {i \in DOMAIN all_files :
            Truthy(all_files[i].id) /\ ~EndsWith(all_files[i].name, Placeholder)}

\* the paths of the listed entries without an id or with a placeholder name
NotFiles(list_path) ==
    LET all_files == ListEntries(list_path)
    IN  {FilePath(list_path, all_files[i].name) : i \in DOMAIN all_files \ ListedFiles(list_path)}

\* C25: every 'completed' result of process_all_documents has total_files =
\* successful + failed + skipped = the number of listed entries that have an
\* id and no placeholder name; the other listed entries are neither reported
\* nor handed to process_document_by_path
C25_BatchCounts ==
    /\ batchRet.status = "completed" =>
        /\ batchRet.total_files = batchRet.successful + batchRet.failed + batchRet.skipped
        /\ batchRet.total_files = Cardinality(ListedFiles(batchRet.list_path))
        /\ \A i \in DOMAIN batchRet.results :
            batchRet.results[i].file_path \notin NotFiles(batchRet.list_path)
    /\ (batch.pc # "idle" /\ ret.status \in {"success", "error"}) =>
        ret.file_path \notin NotFiles(batch.list_path)

\* C25 witness: a batch over the top of the bucket, whose listing holds
\* folder entries without an id beside a file, returned 'completed' with the
\* file as its only entry, ingested
C25_Witness ==
    /\ batchRet.status = "completed"
    /\ batchRet.list_path = <<>>
    /\ NotFiles(batchRet.list_path) # {}
    /\ batchRet.total_files = 1
    /\ batchRet.successful + batchRet.failed = 1

----------------------------------------------------------------------------
(* Claims about is_document_processed and the 'processing' mark *)

\* C26: is_document_processed answers false when its ledger lookup fails or
\* finds no row with status 'processed', and its Qdrant probe fails too
C26_UnknownIsNotProcessed ==
    \A file_path \in Bucket, lookupOk \in BOOLEAN :
        (~lookupOk \/ ledger[DocumentId(file_path)].status # "processed") =>
            ~IsDocumentProcessed(file_path, lookupOk, FALSE)

\* C26 witness: the webhook's check found a path not processed, and its
\* ingestion was scheduled, although chunks were stored under its
\* document_id when the check was made: the ledger did not answer
\* 'processed' and the probe failed
C26_Witness ==
    /\ run["webhook"].pc = "scheduled"
    /\ run["webhook"].had > 0

\* what a run of process_document_by_path returns and stores, from the
\* present ledger and collection
\*   lw: its 'processing' mark is written   fail: the step before the
\*   embedding call that fails, or "none"   n, em, up: as in PdpEnd
\*   lwLast: its last ledger write succeeds
RunOutcome(caller, file_path, lw, fail, n, em, up, lwLast) ==
    LET end(b) == PdpEnd(b.ledger, store, caller, file_path, n, em, up, lwLast)
        outcome(b) == IF b.failed
                      THEN [ret |-> b.ret, store |-> store]
                      ELSE CHOOSE r \in {[ret |-> e.ret, store |-> e.store] : e \in {end(b)}} : TRUE
    IN  CHOOSE r \in {outcome(b) : b \in {PdpBegin(ledger, caller, file_path, lw, fail, lwLast)}} :
            TRUE

\* the ways a run can go: a step before the embedding call fails, or none
\* does and the run makes n chunks, gets its embeddings or not, and upserts
RunCases ==
    [fail : Failures, n : {1}, em : {"ok"}, up : {TRUE}] \cup
    [fail : {"none"}, n : 1..MaxChunks, em : {"ok", "raise"}, up : BOOLEAN]

\* no run of process_document_by_path is in flight or scheduled
NoRunInFlight == \A c \in Callers : run[c].pc = "idle"

\* C27: a run of process_document_by_path whose 'processing' mark fails to
\* be written goes through the same steps, stores the same chunks and
\* returns the same result as when the mark is written (a run on its own,
\* from every ledger and collection that earlier runs have left)
C27_ProcessingMarkIsBestEffort ==
    NoRunInFlight =>
        \A caller \in Callers, file_path \in RunPaths, k \in RunCases, lwLast \in BOOLEAN :
            RunOutcome(caller, file_path, FALSE, k.fail, k.n, k.em, k.up, lwLast) =
                RunOutcome(caller, file_path, TRUE, k.fail, k.n, k.em, k.up, lwLast)

\* C27 witness: a run returned 'success' and stored its chunks although no
\* ledger write for its document_id ever succeeded, its 'processing' mark
\* included
C27_Witness ==
    /\ ret.status = "success"
    /\ ret.wrote = ret.chunks_created
    /\ ret.wrote > 0
    /\ ledger[ret.document_id] = NoRow

----------------------------------------------------------------------------
(* Claims about the gap votes and the enrichment of the gap items *)

RefreshCompleted ==
    /\ "kind" \in DOMAIN lastAnalytics
    /\ lastAnalytics.kind = "refresh"
    /\ lastAnalytics.outcome = "completed"

\* the condition under which a chat turn is taken for a gap: its status is
\* 'gap', or its assistant message is missing or empty, or has less than 40
\* characters once trimmed, or contains a low-confidence phrase
TakenForGap(row) ==
    \/ row.status = "gap"
    \/ row.assistant_message \in {NoneVal, <<>>}
    \/ Len(Strip(row.assistant_message)) < 40
    \/ \E ph \in LowConfPhrases : Contains(Lower(row.assistant_message), ph)

\* the rows of the run that have the question q once trimmed, the owner o,
\* and are taken for gaps
GapVotes(o, q) ==
    LET rows == IterChatTurns(lastAnalytics.table, lastAnalytics.options)
    IN  Cardinality({i \in DOMAIN rows :
            /\ Strip(rows[i].user_message) = q
            /\ OwnerForRow(rows[i], lastAnalytics.siteOwner) = o
            /\ TakenForGap(rows[i])})

\* recent_attempts of the gap item of the run for owner o and question q,
\* 0 if there is none
ReportedVotes(o, q) ==
    LET items == lastAnalytics.gap_items
        mine == {k \in DOMAIN items : items[k].user_id = o /\ items[k].topic = q}
    IN  IF mine = {} THEN 0 ELSE items[CHOOSE k \in mine : TRUE].recent_attempts

\* C28: in refresh_most_asked_questions a chat turn with a non-empty user
\* message and a resolved owner adds one gap vote for its question exactly if
\* its status is 'gap', or its assistant message is empty or missing, or
\* shorter than 40 characters once trimmed, or contains a low-confidence
\* phrase: the votes a gap item reports are the number of such turns (a
\* question with less than min_count votes has no gap item)
C28_GapVotes ==
    RefreshCompleted =>
        \A o \in Owners, q \in {<<"a", "b">>} :
            ReportedVotes(o, q) =
                IF GapVotes(o, q) >= lastAnalytics.options.min_count THEN GapVotes(o, q) ELSE 0

\* C28 witness: of three turns of one question, the one with status 'gap' and
\* the one whose long reply begins with "I'm not sure" voted, the one with a
\* plain reply of 40 characters did not
C28_Witness ==
    /\ RefreshCompleted
    /\ Len(lastAnalytics.table) = 3
    /\ GapVotes(OwnerA, <<"a", "b">>) = 2
    /\ ReportedVotes(OwnerA, <<"a", "b">>) = 2

\* the enrichment call of the run failed or returned nothing, or a text
\* from which no JSON object can be parsed
NothingParsed ==
    LET lm == lastAnalytics.enrich
    IN  \/ lm.kind = "none"
        \/ lm.empty
        \/ lm.json = JsonList
        \/ lm.json = JsonInvalid /\ lm.embedded \in {NoMatch, JsonInvalid}

\* the rows of knowledge_gaps for the site and topic of a gap item
RowsOf(item) == {id \in DOMAIN gaps : gaps[id].site_id = item.site_id /\ gaps[id].topic = item.topic}

\* the chat turns of the run that count for the owner of a gap item
TurnsOfOwner(item) ==
    LET rows == IterChatTurns(lastAnalytics.table, lastAnalytics.options)
    IN  Cardinality({i \in DOMAIN rows :
            /\ Strip(rows[i].user_message) # <<>>
            /\ OwnerForRow(rows[i], lastAnalytics.siteOwner) = item.user_id})

\* C29: when the enrichment call for a gap fails, returns nothing, or returns
\* a text from which no JSON object can be parsed, the run does not fail and
\* the gap is persisted with the heuristic gap_rate, the votes over the
\* owner's turns as a percentage, and the heuristic why
C29_EnrichmentFallsBack ==
    ("kind" \in DOMAIN lastAnalytics /\ lastAnalytics.kind = "refresh" /\ NothingParsed) =>
        /\ lastAnalytics.outcome \in {"completed", "skipped"}
        /\ \A k \in DOMAIN lastAnalytics.gap_items :
            LET item == lastAnalytics.gap_items[k]
                gcount == item.recent_attempts
                owner_total == TurnsOfOwner(item)
            IN  /\ item.gap_rate = GapRate(gcount, owner_total)
                /\ item.why = HeuristicWhy(gcount, owner_total)
                /\ RowsOf(item) # {}
                /\ \A id \in RowsOf(item) :
                    gaps[id].gap_rate = item.gap_rate /\ gaps[id].why = item.why

\* C29 witness: the enrichment call answered in prose; the question had two
\* votes in the owner's three turns, and its row of knowledge_gaps has the
\* gap_rate 66.67
C29_Witness ==
    /\ RefreshCompleted
    /\ lastAnalytics.enrich = TextAnswer(FALSE, JsonInvalid, NoMatch)
    /\ \E k \in DOMAIN lastAnalytics.gap_items :
        /\ lastAnalytics.gap_items[k].recent_attempts = 2
        /\ \E id \in RowsOf(lastAnalytics.gap_items[k]) : gaps[id].gap_rate = 6667

----------------------------------------------------------------------------
(* Claims about the chat turns the analytics read *)

\* the rows of chat_turns that widget_chat wrote for owner o, with a question
\* that is not blank
TurnsWrittenFor(o) ==
    LET mine == {r \in DOMAIN chatTurns : r.owner_id = o /\ Strip(r.user_message) # <<>>}
    IN  BagCardinality([r \in mine |-> chatTurns[r]])

\* C30 (as claimed): every chat turn widget_chat wrote for owner O is counted
\* by a later run of refresh_most_asked_questions, unscoped or scoped to O,
\* towards O's total_queries
C30_ChatTurnsCounted ==
    ("kind" \in DOMAIN lastAnalytics /\ lastAnalytics.kind = "refresh") =>
        \A o \in Owners :
            (TurnsWrittenFor(o) > 0 /\ lastAnalytics.options.user_id \in {NoneVal, o}) =>
                \E k \in DOMAIN lastAnalytics.inserted :
                    /\ lastAnalytics.inserted[k].owner_id = o
                    /\ lastAnalytics.inserted[k].total_queries = TurnsWrittenFor(o)

----------------------------------------------------------------------------
(* Claims about the pages of _iter_chat_turns *)

Iterating == "kind" \in DOMAIN lastAnalytics /\ lastAnalytics.kind = "iter"

\* the rows in scope of the iteration under way
RowsInScope == IterChatTurns(lastAnalytics.table, lastAnalytics.options)

\* the generator has ended without a raise: it has yielded each row in scope
\* once, in the order of the table, and has made no more queries than the
\* full pages and one more
YieldedEachRowOnce ==
    (Iterating /\ lastAnalytics.pc = "done") =>
        /\ lastAnalytics.yielded = RowsInScope
        /\ lastAnalytics.pages = Len(RowsInScope) \div lastAnalytics.page_size + 1

\* C31: over a chat_turns table that does not change, _iter_chat_turns with a
\* page size of 1 or more ends, and when it ends without a raise it has
\* yielded each row in scope exactly once, also for no row and for a number of
\* rows that is a multiple of the page size
C31_PagesYieldEachRowOnce ==
    /\ []YieldedEachRowOnce
    /\ Iterating ~> (Iterating /\ lastAnalytics.pc \in {"done", "raised"})

\* the rows in scope filled two full pages, and a third query found none
C31_Witness ==
    /\ Iterating
    /\ lastAnalytics.pc = "done"
    /\ lastAnalytics.page_size = 2
    /\ Len(lastAnalytics.yielded) = 4
    /\ lastAnalytics.pages = 3

----------------------------------------------------------------------------
(* Claims about the rows of knowledge_gaps *)

\* C32 (as claimed): after any analytics runs and update_knowledge_gap
\* actions, knowledge_gaps holds at most one row for each pair of owner
\* (user_id) and topic
C32_OneGapPerOwnerTopic ==
    \A i, j \in DOMAIN gaps :
        (gaps[i].user_id = gaps[j].user_id /\ gaps[i].topic = gaps[j].topic) => i = j

----------------------------------------------------------------------------
(* Claims about the ledger once the runs for a document have returned *)

\* no run of process_document_by_path for the document is between its start
\* and its return in rs
AllReturned(rs, document_id) ==
    \A c \in Callers : ~(rs[c].pc = "embedding" /\ DocumentId(rs[c].path) = document_id)

\* the ledger led shows the document as being processed although every run
\* for it in rs has returned
LeftProcessing(led, rs, document_id) ==
    /\ AllReturned(rs, document_id)
    /\ led[document_id].status = "processing"

\* C33: once every started run of process_document_by_path for a document has
\* returned, the ledger status of the document is 'processing' only after a
\* ledger write failed: a step leaves the document 'processing' with no run
\* under way only if it was so before the step, or if the step is the return
\* of a run for the document whose last ledger write failed
C33_NotLeftProcessing ==
    [][\A document_id \in DocIds :
          LeftProcessing(ledger', run', document_id) =>
              \/ LeftProcessing(ledger, run, document_id)
              \/ /\ ret'.status \in {"success", "error"}
                 /\ ret'.document_id = document_id
                 /\ ~ret'.ledgerOk]_vars

\* the last of two runs that overlapped on one path has returned, its ledger
\* write succeeded, and the document is 'processed' or 'error'
C33_Witness ==
    /\ ret.status \in {"success", "error"}
    /\ ret.ledgerOk
    /\ "peer" \in DOMAIN ret
    /\ ret.peer > 0
    /\ AllReturned(run, ret.document_id)
    /\ ledger[ret.document_id].status \in {"processed", "error"}

----------------------------------------------------------------------------
(* Claims about the documents a batch skips *)

\* the entries of the returned batch result that are reported skipped
SkippedEntries ==
    {i \in DOMAIN batchRet.results : batchRet.results[i].status = "skipped"}

\* C34: a document that process_all_documents reports 'skipped' is not
\* written by that batch: when the batch returns, the ledger row and the
\* stored chunks of the document are what they were when the loop reached
\* the document, and its entry reports no chunk written
C34_SkippedIsUntouched ==
    batchRet.status = "completed" =>
        \A i \in SkippedEntries :
            LET entry == batchRet.results[i]
                document_id == DocumentId(entry.file_path)
            IN  /\ ledger[document_id] = entry.row
                /\ BagCardinality(PointsOf(store, document_id)) = entry.had
                /\ entry.wrote = 0

\* a batch skipped one document and, after it, ingested another
C34_Witness ==
    /\ batchRet.status = "completed"
    /\ \E i \in SkippedEntries :
           \E j \in DOMAIN batchRet.results :
               i < j /\ batchRet.results[j].status = "success" /\ batchRet.results[j].wrote > 0

----------------------------------------------------------------------------
(* Claims about the chat turn of an answer without documents *)

\* widget_chat answered, and its retrieval had returned no document
AnsweredWithoutDocuments ==
    /\ "result" \in DOMAIN lastChat
    /\ lastChat.result.status = 200
    /\ BagCardinality(lastChat.result.documents) = 0

\* C35: the turn widget_chat records for an answer whose retrieval returned no
\* document has status 'resolved', never 'gap': its assistant message is the
\* reply of the empty-context guard, which is not empty
C35_NoDocumentsIsResolved ==
    AnsweredWithoutDocuments =>
        \A i \in DOMAIN lastChat.result.turns :
            /\ lastChat.result.turns[i].status = "resolved"
            /\ lastChat.result.turns[i].assistant_message = Fallback
            /\ Fallback # <<>>

\* a question that is not blank found no document, and its turn is recorded
C35_Witness ==
    /\ AnsweredWithoutDocuments
    /\ ~QueryBlank(lastChat.request.query)
    /\ Len(lastChat.result.turns) = 1
    /\ lastChat.result.turns[1] \in DOMAIN chatTurns
    /\ lastChat.result.turns[1].status = "resolved"

----------------------------------------------------------------------------
(* Claims about the document_id of a path *)

\* C36 (as claimed): a document is found processed only through an ingestion
\* of its own path: every file a batch skips was ingested with success by an
\* earlier batch, also when another path differs from it only in '/', '-'
\* and '_'
C36_SkippedOnlyAfterOwnIngestion ==
    batchRet.status = "completed" =>
        \A i \in DOMAIN batchRet.results :
            batchRet.results[i].status = "skipped" =>
                batchRet.results[i].file_path \in batchRet.prior

----------------------------------------------------------------------------
(* Claims about the owner filter of widget_chat *)

\* widget_chat answered under a token of a widget that is in the table
AnsweredForWidget ==
    /\ "result" \in DOMAIN lastChat
    /\ lastChat.result.status = 200
    /\ ~QueryBlank(lastChat.request.query)
    /\ lastChat.auth.token.widget_id \in DOMAIN widgets

\* C37 (as claimed): whenever widget_chat answers a request with a valid
\* token, its retrieval ran with an owner filter equal to the current owner
\* of the token's widget, and every document returned has that owner_id;
\* also when the token carries no owner_id and when the widget has no owner
C37_RetrievalFilteredByOwner ==
    AnsweredForWidget =>
        LET owner_id == widgets[lastChat.auth.token.widget_id].owner_id
        IN  /\ lastChat.result.filter.owner_id = owner_id
            /\ Truthy(lastChat.result.filter.owner_id)
            /\ \A p \in DOMAIN lastChat.result.documents : p.owner_id = owner_id

----------------------------------------------------------------------------
(* Claims about the gap_rate of the rows of knowledge_gaps *)

\* C38 (as claimed): every gap row refresh_most_asked_questions persists has
\* a gap_rate from 0 to 100 (the model counts gap_rate in hundredths of a
\* percent), whether the heuristic or the enrichment set it
C38_GapRateIsPercentage ==
    \A i \in DOMAIN gaps :
        "gap_rate" \in DOMAIN gaps[i] => gaps[i].gap_rate \in 0..10000

----------------------------------------------------------------------------
(* Claims about the clusters of the two greedy clusterings *)

\* the count the input gives a question
InputCount(items, q) == items[CHOOSE i \in DOMAIN items : items[i].q = q].count

RECURSIVE SumOfCounts(_, _)
SumOfCounts(items, variants) ==
    IF variants = <<>> THEN 0
    ELSE InputCount(items, Head(variants)) + SumOfCounts(items, Tail(variants))

\* clusters is a partition of the questions of items, with the counts added
\* up, the largest cluster first
PartitionOf(clusters, items) ==
    /\ \A i \in DOMAIN items :
           Cardinality({x \in UNION {{<<k, v>> : v \in DOMAIN clusters[k].variants} :
                                        k \in DOMAIN clusters} :
                            clusters[x[1]].variants[x[2]] = items[i].q}) = 1
    /\ \A k \in DOMAIN clusters :
           /\ clusters[k].variants # <<>>
           /\ \A v \in DOMAIN clusters[k].variants :
                  \E i \in DOMAIN items : items[i].q = clusters[k].variants[v]
           /\ clusters[k].total_count = SumOfCounts(items, clusters[k].variants)
    /\ \A k \in 1..(Len(clusters) - 1) :
           clusters[k].total_count >= clusters[k + 1].total_count

\* C39: the clusters of _cluster_using_embeddings (when the embedding call
\* answered) and of _cluster_using_fuzzy before its truncation: every input
\* question is a variant of exactly one cluster, the total_count of a cluster
\* is the sum of the counts of its variants, and the clusters are in
\* descending order of total_count; with a limit _cluster_using_fuzzy returns
\* the first clusters of that list
C39_ClustersPartitionTheInput ==
    /\ \A r \in DOMAIN clusterRuns :
           clusterRuns[r].api # "fail" =>
               PartitionOf(clusterRuns[r].clusters, clusterInput.items)
    /\ ("kind" \in DOMAIN lastCluster /\ lastCluster.kind = "fuzzy") =>
           IF lastCluster.limit = Null
           THEN PartitionOf(lastCluster.clusters, clusterInput.items)
           ELSE \E full \in {ClusterUsingFuzzy(QuestionCounts(clusterInput.items), Null)} :
                    /\ PartitionOf(full, clusterInput.items)
                    /\ lastCluster.clusters = Truncate(full, lastCluster.limit)

\* both clusterings put the second and the third question in one cluster,
\* which the sort moved before the cluster of the first question
C39_Witness ==
    /\ Len(clusterRuns) > 0
    /\ clusterRuns[1].api = "client"
    /\ "kind" \in DOMAIN lastCluster
    /\ lastCluster.kind = "fuzzy"
    /\ lastCluster.limit = Null
    /\ \A clusters \in {clusterRuns[1].clusters, lastCluster.clusters} :
           /\ Len(clusters) = 2
           /\ Len(clusters[1].variants) = 2
           /\ clusters[2].canonical_question = clusterInput.items[1].q
           /\ clusters[1].total_count > clusters[2].total_count

====
